---- MODULE Spec2Model ----
(***************************************************************************)
(* Milestone detection engine of nba_processor:                            *)
(*   src/nba_processor/engines/milestone_engine.py  (MilestoneEngine,      *)
(*       MilestoneResults, MilestoneEntry)                                 *)
(*   src/utils/helpers.py                           (safe_int, is_* rules, *)
(*       calculate_game_score, calculate_true_shooting)                    *)
(*                                                                         *)
(* A field value of an input mapping is a tagged value [k, v]:             *)
(*   k = "missing"  the key is absent from the mapping                     *)
(*   k = "none"     the key is present and holds None                      *)
(*   k = "int"      the key holds the integer v                            *)
(*   k = "float"    the key holds the finite float v / d (a third field d) *)
(*   k = "inf"      the key holds float('inf') (v = 1) or -inf (v = -1)    *)
(*   k = "nan"      the key holds float('nan')                             *)
(*   k = "str"      the key holds the string v; the record carries what    *)
(*                  float(v.strip()) and parse_minutes(v) make of it in    *)
(*                  two more fields, float and minutes (see S below)       *)
(*   k = "other"    the key holds a value of another type                  *)
(* A float computed by calculate_true_shooting or calculate_game_score is  *)
(* [k |-> "float", v] with v in the unit stated where it is produced.      *)
(***************************************************************************)
EXTENDS Integers, Sequences, FiniteSets, TLC

VARIABLES
    results,    \* MilestoneEngine.results : category key -> list of MilestoneEntry
    games,      \* the argument of the current / last process_games call
    gi,         \* 1-based position of the `for game in games` loop
    pc,         \* "idle" (no call in progress), "running" (inside process_games)
                \* or "raised" (the last call left process_games by an exception)
    returned,   \* what the last completed call handed to its caller, if any:
                \* the games it was given and the MilestoneResults it returned
    call,       \* a direct call of a function of utils/helpers.py: its name
                \* and arguments (NoCall when the engine is what runs)
    ret         \* what that call gave: a value, an exception, or Pending

vars == <<results, games, gi, pc, returned, call, ret>>

-----------------------------------------------------------------------------
(* Bounds of the model *)

MaxGames == 2       \* longest batch passed to process_games
MaxRoster == 2      \* longest roster of one side in a multi-game batch
MaxPts == 72        \* single-stat sweeps: 0..Max
MaxTrb == 26
MaxAst == 21
MaxStl == 11
MaxBlk == 11
MaxFg3 == 11
MaxPlusMinus == 26  \* plus_minus sweep: -Max..Max

-----------------------------------------------------------------------------
(* Raw field values *)

Missing == [k |-> "missing", v |-> 0]
None == [k |-> "none", v |-> 0]
I(n) == [k |-> "int", v |-> n]
F(n, d) == [k |-> "float", v |-> n, d |-> d]     \* the finite float n / d, d > 0
Inf == [k |-> "inf", v |-> 1]                    \* float('inf')
NegInf == [k |-> "inf", v |-> -1]                \* float('-inf')
NaN == [k |-> "nan", v |-> 0]                    \* float('nan')
Other == [k |-> "other", v |-> 0]                \* a list, a dict, ...

\* the outcome of a conversion that raised ValueError
ValueError == [k |-> "ValueError", v |-> 0]

\* dict.get(key, default) on a player mapping
get(d, key, default) == IF d[key].k = "missing" THEN default ELSE d[key]

-----------------------------------------------------------------------------
(* Python's str.lower, str.strip, int(str) and float(str), for ASCII       *)
(* strings written without an exponent and without '_' between digits      *)

UpperCase == "ABCDEFGHIJKLMNOPQRSTUVWXYZ"
LowerCase == "abcdefghijklmnopqrstuvwxyz"

\* str.lower() on one character
LowerChar(c) ==
    IF \E i \in 1..Len(UpperCase) : SubSeq(UpperCase, i, i) = c
    THEN LET i == CHOOSE j \in 1..Len(UpperCase) : SubSeq(UpperCase, j, j) = c
         IN  SubSeq(LowerCase, i, i)
    ELSE c

\* str.lower()
lower(s) ==
    LET out[i \in 0..Len(s)] ==
            IF i = 0 THEN "" ELSE out[i - 1] \o LowerChar(SubSeq(s, i, i))
    IN  out[Len(s)]

Whitespace == { " ", "\t", "\n" }
Digits == "0123456789"

\* str.strip()
strip(s) ==
    LET Between(black) ==
            IF black = {} THEN ""
            ELSE SubSeq(s, CHOOSE i \in black : \A j \in black : i <= j,
                           CHOOSE i \in black : \A j \in black : i >= j)
    IN  Between({ i \in 1..Len(s) : SubSeq(s, i, i) \notin Whitespace })

IsDigit(c) == \E i \in 1..Len(Digits) : SubSeq(Digits, i, i) = c

DigitVal(c) == (CHOOSE i \in 1..Len(Digits) : SubSeq(Digits, i, i) = c) - 1

\* a non-empty run of decimal digits
AllDigits(s) == Len(s) > 0 /\ \A i \in 1..Len(s) : IsDigit(SubSeq(s, i, i))

\* the number a run of decimal digits denotes ("" denotes 0)
DecVal(s) ==
    LET val[i \in 0..Len(s)] ==
            IF i = 0 THEN 0 ELSE 10 * val[i - 1] + DigitVal(SubSeq(s, i, i))
    IN  val[Len(s)]

Pow10(n) ==
    LET pow[i \in 0..n] == IF i = 0 THEN 1 ELSE 10 * pow[i - 1]
    IN  pow[n]

\* the sign a leading '+' or '-' gives, and the text after it
SignOf(s) == IF Len(s) > 0 /\ SubSeq(s, 1, 1) = "-" THEN -1 ELSE 1
Unsigned(s) ==
    IF Len(s) > 0 /\ SubSeq(s, 1, 1) \in { "+", "-" }
    THEN SubSeq(s, 2, Len(s)) ELSE s

\* int(s) on a string: surrounding whitespace, a sign, decimal digits
py_int(s) ==
    LET OfDigits(sign, b) ==
            IF AllDigits(b) THEN I(sign * DecVal(b)) ELSE ValueError
        OfStripped(t) == OfDigits(SignOf(t), Unsigned(t))
    IN  OfStripped(strip(s))

\* float(s) on a string: surrounding whitespace, a sign, then inf, infinity
\* or nan in any casing, or digits with at most one '.' and at least one digit
py_float(s) ==
    LET OfParts(sign, ip, fp, scale) ==
            IF /\ ip = "" \/ AllDigits(ip)
               /\ fp = "" \/ AllDigits(fp)
               /\ ip # "" \/ fp # ""
            THEN F(sign * (DecVal(ip) * scale + DecVal(fp)), scale)
            ELSE ValueError
        OfPoint(sign, b, dot) ==
            OfParts(sign, SubSeq(b, 1, dot - 1), SubSeq(b, dot + 1, Len(b)),
                    Pow10(Len(b) - dot))
        OfDigits(sign, b, dots) ==
            IF dots = {} THEN
                IF AllDigits(b) THEN F(sign * DecVal(b), 1) ELSE ValueError
            ELSE IF Cardinality(dots) > 1 THEN ValueError
            ELSE OfPoint(sign, b, CHOOSE i \in dots : TRUE)
        OfWord(sign, b, word) ==
            IF word \in { "inf", "infinity" } THEN [k |-> "inf", v |-> sign]
            ELSE IF word = "nan" THEN NaN
            ELSE OfDigits(sign, b, { i \in 1..Len(b) : SubSeq(b, i, i) = "." })
        OfUnsigned(sign, b) == OfWord(sign, b, lower(b))
        OfStripped(t) == OfUnsigned(SignOf(t), Unsigned(t))
    IN  OfStripped(strip(s))

\* int(x) on a finite float: truncation toward zero
int_of_float(x) ==
    IF x.v >= 0 THEN x.v \div x.d ELSE -((-x.v) \div x.d)

-----------------------------------------------------------------------------
(* helpers.safe_int, helpers.parse_minutes *)

\* safe_int raises: int() of an infinite or NaN float is outside any try,
\* and int(float("inf")) raises OverflowError, which the except clause
\* (ValueError, AttributeError) does not catch.  value.float is
\* float(value.strip()) of a string value.
safe_int_raises(value) ==
    \/ value.k \in { "inf", "nan" }
    \/ value.k = "str" /\ value.float.k = "inf"

\* helpers.safe_int, when it returns
safe_int(value, default) ==
    LET OfFloat(x) == IF x.k = "float" THEN int_of_float(x) ELSE default
    IN  IF value.k = "none" THEN default
        ELSE IF value.k = "int" THEN value.v
        ELSE IF value.k = "float" THEN int_of_float(value)
        ELSE IF value.k = "str" THEN OfFloat(value.float)
        ELSE default

\* mp.split(':')[n], n = 0 or 1, for a string that holds a ':'
SplitPart(s, n) ==
    LET First(set) == CHOOSE i \in set : \A j \in set : i <= j
        Upto(later) == IF later = {} THEN Len(s) + 1 ELSE First(later)
        Part(colons, c1) ==
            IF n = 0 THEN SubSeq(s, 1, c1 - 1)
            ELSE SubSeq(s, c1 + 1, Upto({ i \in colons : i > c1 }) - 1)
        Cut(colons) == Part(colons, First(colons))
    IN  Cut({ i \in 1..Len(s) : SubSeq(s, i, i) = ":" })

\* helpers.parse_minutes on a string
parse_minutes(mp) ==
    LET Clock(minutes, seconds) ==
            IF minutes.k = "int" /\ seconds.k = "int"
            THEN F(60 * minutes.v + seconds.v, 60)
            ELSE F(0, 1)
        Plain(x) == IF x.k = "ValueError" THEN F(0, 1) ELSE x
    IN  IF \E i \in 1..Len(mp) : SubSeq(mp, i, i) = ":"
        THEN Clock(py_int(SplitPart(mp, 0)), py_int(SplitPart(mp, 1)))
        ELSE Plain(py_float(mp))

\* a string value s of a player mapping.  The conversions the code applies
\* to a string are computed here, once per string, by the operators above:
\* float is float(s.strip()) as safe_int calls it, minutes parse_minutes(s)
S(s) ==
    [ k |-> "str", v |-> s,
      float   |-> py_float(strip(s)),
      minutes |-> parse_minutes(s) ]

-----------------------------------------------------------------------------
(* MilestoneResults: the category list fields, in declaration order *)

CategoryKeys ==
    << "quadruple_doubles", "triple_doubles", "double_doubles",
       "near_triple_doubles", "near_double_doubles", "five_by_fives",
       "all_around_games",
       "seventy_point_games", "sixty_point_games", "fifty_point_games",
       "forty_five_point_games", "forty_point_games",
       "thirty_five_point_games", "thirty_point_games",
       "twenty_five_point_games", "twenty_point_games",
       "twenty_five_rebound_games", "twenty_rebound_games",
       "eighteen_rebound_games", "fifteen_rebound_games",
       "twelve_rebound_games", "ten_rebound_games",
       "twenty_assist_games", "fifteen_assist_games",
       "twelve_assist_games", "ten_assist_games",
       "ten_steal_games", "seven_steal_games", "five_steal_games",
       "four_steal_games",
       "ten_block_games", "seven_block_games", "five_block_games",
       "four_block_games",
       "ten_three_games", "eight_three_games", "seven_three_games",
       "six_three_games", "five_three_games", "perfect_from_three",
       "hot_shooting_games", "perfect_ft_games", "perfect_fg_games",
       "efficient_scoring_games", "high_game_score",
       "thirty_ten_games", "twenty_five_ten_games", "twenty_ten_games",
       "twenty_ten_five_games", "twenty_twenty_games",
       "points_assists_double_double",
       "defensive_monster_games",
       "zero_turnover_games",
       "plus_25_games", "plus_20_games", "minus_25_games" >>

Categories == { CategoryKeys[i] : i \in 1..Len(CategoryKeys) }

\* MilestoneResults(): every field defaults to an empty list
MilestoneResults == [c \in Categories |-> << >>]

post_init_longer_than_8(date_yyyymmdd, game_id) ==
    IF date_yyyymmdd = "" /\ game_id # "" /\ Len(game_id) > 8
    THEN SubSeq(game_id, 1, 8)
    ELSE date_yyyymmdd

\* __post_init__: if not self.date_yyyymmdd and self.game_id and
\* len(self.game_id) >= 8: self.date_yyyymmdd = self.game_id[:8]
\* (the field's default is "", and an empty string is falsy)
post_init(date_yyyymmdd, game_id) ==
    IF date_yyyymmdd = "" /\ game_id # "" /\ Len(game_id) >= 8
    THEN SubSeq(game_id, 1, 8)
    ELSE date_yyyymmdd

\* MilestoneEntry(...): the engine passes no date_yyyymmdd, so __post_init__
\* sees the default ""
MilestoneEntry(milestone_type, detail, base_entry) ==
    [ milestone_type |-> milestone_type,
      player         |-> base_entry.player,
      player_id      |-> base_entry.player_id,
      team           |-> base_entry.team,
      opponent       |-> base_entry.opponent,
      game_id        |-> base_entry.game_id,
      date           |-> base_entry.date,
      side           |-> base_entry.side,
      stats          |-> base_entry.stats,
      detail         |-> detail,
      date_yyyymmdd  |-> post_init("", base_entry.game_id) ]

\* variant: the entry's milestone_type is the name of the list it goes to
Add_type_is_key(res, category, milestone_type, detail, base_entry) ==
    [res EXCEPT ![category] =
         Append(@, MilestoneEntry(category, detail, base_entry))]

\* self.results.<category>.append(MilestoneEntry(milestone_type=..., detail=..., **base_entry))
Add(res, category, milestone_type, detail, base_entry) ==
    [res EXCEPT ![category] =
         Append(@, MilestoneEntry(milestone_type, detail, base_entry))]

-----------------------------------------------------------------------------
(* Numbers the code holds as floats.  calculate_true_shooting rounds to    *)
(* three decimals and calculate_game_score to one, so a result is kept as  *)
(* the integer number of thousandths / tenths.                             *)

\* n / d rounded to the nearest integer, ties to even (Python round), d > 0
RoundDiv(n, d) ==
    LET q == n \div d
        r == n % d
    IN  IF 2 * r > d \/ (2 * r = d /\ q % 2 = 1) THEN q + 1 ELSE q

\* str() of a float that has one decimal, given in tenths: 378 -> "37.8"
Str1(t) ==
    IF t < 0
    THEN "-" \o ToString((-t) \div 10) \o "." \o ToString((-t) % 10)
    ELSE ToString(t \div 10) \o "." \o ToString(t % 10)

\* the five base categories, in the fixed order the helpers use
categories == << "pts", "trb", "ast", "stl", "blk" >>

\* sum(1 for cat in categories if lo <= safe_int(stats.get(cat, 0)) < hi)
CountBetween(stats, lo, hi) ==
    Cardinality({ i \in 1..Len(categories) :
        /\ safe_int(get(stats, categories[i], I(0)), 0) >= lo
        /\ safe_int(get(stats, categories[i], I(0)), 0) < hi })

\* sum(1 for cat in categories if safe_int(stats.get(cat, 0)) >= threshold)
CountAtLeast(stats, threshold) ==
    Cardinality({ i \in 1..Len(categories) :
        safe_int(get(stats, categories[i], I(0)), 0) >= threshold })

\* variant: a triple-double only when exactly three categories qualify
is_triple_double_exactly3(stats, threshold) == CountAtLeast(stats, threshold) = 3

is_triple_double(stats, threshold) == CountAtLeast(stats, threshold) >= 3

is_double_double(stats, threshold) == CountAtLeast(stats, threshold) >= 2

is_quadruple_double(stats, threshold) == CountAtLeast(stats, threshold) >= 4

is_five_by_five(stats, threshold) ==
    \A i \in 1..Len(categories) :
        safe_int(get(stats, categories[i], I(0)), 0) >= threshold

\* variant: without the "already a triple-double" guard, two or more at threshold
is_near_triple_double_unguarded(stats, threshold, near_threshold) ==
    LET at_threshold == CountAtLeast(stats, threshold)
        near == CountBetween(stats, near_threshold, threshold)
    IN  at_threshold >= 2 /\ near >= 1

is_near_triple_double(stats, threshold, near_threshold) ==
    LET at_threshold == CountAtLeast(stats, threshold)
        near == CountBetween(stats, near_threshold, threshold)
    IN  IF at_threshold >= 3 THEN FALSE
        ELSE at_threshold = 2 /\ near >= 1

is_near_double_double(stats, threshold, near_threshold) ==
    LET at_threshold == CountAtLeast(stats, threshold)
        near == CountBetween(stats, near_threshold, threshold)
    IN  IF at_threshold >= 2 THEN FALSE
        ELSE at_threshold = 1 /\ near >= 1

\* variant: only the "8+ in 4 categories" rule
is_all_around_game_eight_in_four(stats) ==
    CountAtLeast(stats, 8) >= 4

is_all_around_game(stats) ==
    IF \A i \in 1..Len(categories) :
           safe_int(get(stats, categories[i], I(0)), 0) >= 5
    THEN TRUE
    ELSE CountAtLeast(stats, 8) >= 4

\* calculate_true_shooting: None when 2*(fga + 0.44*fta) == 0, otherwise
\* round(pts / denominator, 3), kept in thousandths.
\* pts / (2*(fga + 0.44*fta)) = 12500*pts / (25*fga + 11*fta) thousandths.
calculate_true_shooting(pts, fga, fta) ==
    LET d == 25 * fga + 11 * fta
    IN  IF d = 0 THEN None
        ELSE IF d > 0 THEN [k |-> "float", v |-> RoundDiv(12500 * pts, d)]
        ELSE [k |-> "float", v |-> RoundDiv(-12500 * pts, -d)]

\* variant: offensive and defensive rebounds swap their weights
calculate_game_score_rebounds_swapped(stats) ==
    LET pts == safe_int(get(stats, "pts", I(0)), 0)
        fg  == safe_int(get(stats, "fg", I(0)), 0)
        fga == safe_int(get(stats, "fga", I(0)), 0)
        ft  == safe_int(get(stats, "ft", I(0)), 0)
        fta == safe_int(get(stats, "fta", I(0)), 0)
        orb == safe_int(get(stats, "orb", I(0)), 0)
        drb == safe_int(get(stats, "drb", I(0)), 0)
        stl == safe_int(get(stats, "stl", I(0)), 0)
        ast == safe_int(get(stats, "ast", I(0)), 0)
        blk == safe_int(get(stats, "blk", I(0)), 0)
        pf  == safe_int(get(stats, "pf", I(0)), 0)
        tov == safe_int(get(stats, "tov", I(0)), 0)
    IN  10 * pts + 4 * fg - 7 * fga - 4 * (fta - ft) + 3 * orb + 7 * drb
        + 10 * stl + 7 * ast + 7 * blk - 4 * pf - 10 * tov

\* calculate_game_score: every term is a whole number of tenths, so the
\* rounding to one decimal keeps the exact value; the result is in tenths.
calculate_game_score(stats) ==
    LET pts == safe_int(get(stats, "pts", I(0)), 0)
        fg  == safe_int(get(stats, "fg", I(0)), 0)
        fga == safe_int(get(stats, "fga", I(0)), 0)
        ft  == safe_int(get(stats, "ft", I(0)), 0)
        fta == safe_int(get(stats, "fta", I(0)), 0)
        orb == safe_int(get(stats, "orb", I(0)), 0)
        drb == safe_int(get(stats, "drb", I(0)), 0)
        stl == safe_int(get(stats, "stl", I(0)), 0)
        ast == safe_int(get(stats, "ast", I(0)), 0)
        blk == safe_int(get(stats, "blk", I(0)), 0)
        pf  == safe_int(get(stats, "pf", I(0)), 0)
        tov == safe_int(get(stats, "tov", I(0)), 0)
    IN  10 * pts + 4 * fg - 7 * fga - 4 * (fta - ft) + 7 * orb + 3 * drb
        + 10 * stl + 7 * ast + 7 * blk - 4 * pf - 10 * tov

\* fg / fga >= 0.6 on floats: the correctly rounded quotient reaches the
\* double 0.6 exactly when 5*fg >= 3*fga (fga >= min_attempts > 0 here)
is_hot_shooting(stats, min_attempts) ==
    LET fg  == safe_int(get(stats, "fg", I(0)), 0)
        fga == safe_int(get(stats, "fga", I(0)), 0)
    IN  IF fga < min_attempts THEN FALSE
        ELSE IF fga > 0 THEN 5 * fg >= 3 * fga
        ELSE FALSE

is_perfect_from_three(stats, min_attempts) ==
    LET fg3  == safe_int(get(stats, "fg3", I(0)), 0)
        fg3a == safe_int(get(stats, "fg3a", I(0)), 0)
    IN  fg3a >= min_attempts /\ fg3 = fg3a

is_perfect_ft(stats, min_attempts) ==
    LET ft  == safe_int(get(stats, "ft", I(0)), 0)
        fta == safe_int(get(stats, "fta", I(0)), 0)
    IN  fta >= min_attempts /\ ft = fta

\* variant: every attempted shot made, whatever the number of attempts
is_perfect_fg_any_attempts(stats, min_attempts) ==
    LET fg  == safe_int(get(stats, "fg", I(0)), 0)
        fga == safe_int(get(stats, "fga", I(0)), 0)
    IN  fga >= 1 /\ fg = fga

is_perfect_fg(stats, min_attempts) ==
    LET fg  == safe_int(get(stats, "fg", I(0)), 0)
        fga == safe_int(get(stats, "fga", I(0)), 0)
    IN  fga >= min_attempts /\ fg = fga

\* ts_threshold = 0.65 is 650 thousandths
is_efficient_scoring(stats, ts_threshold, min_points) ==
    LET pts == safe_int(get(stats, "pts", I(0)), 0)
        fga == safe_int(get(stats, "fga", I(0)), 0)
        fta == safe_int(get(stats, "fta", I(0)), 0)
        ts  == calculate_true_shooting(pts, fga, fta)
    IN  IF pts < min_points THEN FALSE
        ELSE ts.k # "none" /\ ts.v >= ts_threshold

is_defensive_monster(stats, combined_threshold) ==
    LET stl == safe_int(get(stats, "stl", I(0)), 0)
        blk == safe_int(get(stats, "blk", I(0)), 0)
    IN  (stl + blk) >= combined_threshold

\* mp as is_zero_turnover_game compares it: a string is parsed first
minutes_of(stats) ==
    LET Parsed(mp) == IF mp.k = "str" THEN mp.minutes ELSE mp
    IN  Parsed(get(stats, "mp", I(0)))

\* x >= n for a number x and an integer n (NaN compares false)
number_ge(x, n) ==
    IF x.k = "int" THEN x.v >= n
    ELSE IF x.k = "float" THEN x.v >= n * x.d
    ELSE IF x.k = "inf" THEN x.v > 0
    ELSE FALSE

\* is_zero_turnover_game raises TypeError: `mp >= min_minutes` is reached
\* (tov == 0) with an mp that is None or of another non-numeric type
is_zero_turnover_game_raises(stats) ==
    /\ safe_int(get(stats, "tov", I(0)), 0) = 0
    /\ minutes_of(stats).k \in { "none", "other" }

\* variant: `mp > min_minutes` in place of `mp >= min_minutes`
is_zero_turnover_game_more_than(stats, min_minutes) ==
    LET More(x) ==
            IF x.k = "int" THEN x.v > min_minutes
            ELSE IF x.k = "float" THEN x.v > min_minutes * x.d
            ELSE IF x.k = "inf" THEN x.v > 0
            ELSE FALSE
    IN  /\ safe_int(get(stats, "tov", I(0)), 0) = 0
        /\ More(minutes_of(stats))

\* helpers.is_zero_turnover_game, when it returns
is_zero_turnover_game(stats, min_minutes) ==
    /\ safe_int(get(stats, "tov", I(0)), 0) = 0
    /\ number_ge(minutes_of(stats), min_minutes)

\* '/'.join(name of each category at or above the threshold)
RECURSIVE JoinCats(_, _, _)
JoinCats(stats, threshold, i) ==
    IF i > Len(categories) THEN ""
    ELSE LET rest == JoinCats(stats, threshold, i + 1)
             nm   == IF categories[i] = "trb" THEN "reb" ELSE categories[i]
         IN  IF safe_int(get(stats, categories[i], I(0)), 0) >= threshold
             THEN IF rest = "" THEN nm ELSE nm \o "/" \o rest
             ELSE rest

get_double_double_categories(stats, threshold) == JoinCats(stats, threshold, 1)

-----------------------------------------------------------------------------
(* MilestoneEngine._check_player_milestones, family by family.  Each       *)
(* operator takes the results so far and returns the results after the     *)
(* family's appends; b is base_entry and b.stats the stats dict.           *)

\* === MULTI-CATEGORY ACHIEVEMENTS ===
MultiCategory(res, b) ==
    LET st  == b.stats
        pts == ToString(st.pts.v)
        trb == ToString(st.trb.v)
        ast == ToString(st.ast.v)
        stl == ToString(st.stl.v)
        blk == ToString(st.blk.v)
        cats == get_double_double_categories(st, 10)
        r1 == IF is_quadruple_double(st, 10)
              THEN Add(res, "quadruple_doubles", "quadruple_double",
                       "Quadruple-double (" \o cats \o ")", b)
              ELSE res
        r2 == IF is_triple_double(st, 10)
              THEN Add(r1, "triple_doubles", "triple_double",
                       "Triple-double (" \o cats \o ")", b)
              ELSE r1
        r3 == IF is_double_double(st, 10)
              THEN Add(r2, "double_doubles", "double_double",
                       "Double-double (" \o cats \o ")", b)
              ELSE r2
        r4 == IF is_near_triple_double(st, 10, 8)
              THEN Add(r3, "near_triple_doubles", "near_triple_double",
                       "Near triple-double (" \o pts \o "/" \o trb \o "/"
                           \o ast \o ")", b)
              ELSE r3
        r5 == IF is_near_double_double(st, 10, 8)
              THEN Add(r4, "near_double_doubles", "near_double_double",
                       "Near double-double", b)
              ELSE r4
        r6 == IF is_five_by_five(st, 5)
              THEN Add(r5, "five_by_fives", "five_by_five",
                       "5x5 (" \o pts \o "/" \o trb \o "/" \o ast \o "/"
                           \o stl \o "/" \o blk \o ")", b)
              ELSE r5
    IN  IF is_all_around_game(st)
        THEN Add(r6, "all_around_games", "all_around_game",
                 "All-around (" \o pts \o "/" \o trb \o "/" \o ast \o "/"
                     \o stl \o "/" \o blk \o ")", b)
        ELSE r6

\* variant: the 40-point rung is tested before the 45-point rung
Scoring_rungs_swapped(res, b) ==
    LET pts == b.stats.pts.v
        d   == ToString(pts) \o " points"
    IN  IF pts >= 70 THEN Add(res, "seventy_point_games", "seventy_point_game", d, b)
        ELSE IF pts >= 60 THEN Add(res, "sixty_point_games", "sixty_point_game", d, b)
        ELSE IF pts >= 50 THEN Add(res, "fifty_point_games", "fifty_point_game", d, b)
        ELSE IF pts >= 40 THEN Add(res, "forty_point_games", "forty_point_game", d, b)
        ELSE IF pts >= 45 THEN Add(res, "forty_five_point_games", "forty_five_point_game", d, b)
        ELSE IF pts >= 35 THEN Add(res, "thirty_five_point_games", "thirty_five_point_game", d, b)
        ELSE IF pts >= 30 THEN Add(res, "thirty_point_games", "thirty_point_game", d, b)
        ELSE IF pts >= 25 THEN Add(res, "twenty_five_point_games", "twenty_five_point_game", d, b)
        ELSE IF pts >= 20 THEN Add(res, "twenty_point_games", "twenty_point_game", d, b)
        ELSE res

\* === SCORING MILESTONES ===
Scoring(res, b) ==
    LET pts == b.stats.pts.v
        d   == ToString(pts) \o " points"
    IN  IF pts >= 70 THEN Add(res, "seventy_point_games", "seventy_point_game", d, b)
        ELSE IF pts >= 60 THEN Add(res, "sixty_point_games", "sixty_point_game", d, b)
        ELSE IF pts >= 50 THEN Add(res, "fifty_point_games", "fifty_point_game", d, b)
        ELSE IF pts >= 45 THEN Add(res, "forty_five_point_games", "forty_five_point_game", d, b)
        ELSE IF pts >= 40 THEN Add(res, "forty_point_games", "forty_point_game", d, b)
        ELSE IF pts >= 35 THEN Add(res, "thirty_five_point_games", "thirty_five_point_game", d, b)
        ELSE IF pts >= 30 THEN Add(res, "thirty_point_games", "thirty_point_game", d, b)
        ELSE IF pts >= 25 THEN Add(res, "twenty_five_point_games", "twenty_five_point_game", d, b)
        ELSE IF pts >= 20 THEN Add(res, "twenty_point_games", "twenty_point_game", d, b)
        ELSE res

\* === REBOUNDING MILESTONES ===
Rebounding(res, b) ==
    LET trb == b.stats.trb.v
        d   == ToString(trb) \o " rebounds"
    IN  IF trb >= 25 THEN Add(res, "twenty_five_rebound_games", "twenty_five_rebound_game", d, b)
        ELSE IF trb >= 20 THEN Add(res, "twenty_rebound_games", "twenty_rebound_game", d, b)
        ELSE IF trb >= 18 THEN Add(res, "eighteen_rebound_games", "eighteen_rebound_game", d, b)
        ELSE IF trb >= 15 THEN Add(res, "fifteen_rebound_games", "fifteen_rebound_game", d, b)
        ELSE IF trb >= 12 THEN Add(res, "twelve_rebound_games", "twelve_rebound_game", d, b)
        ELSE IF trb >= 10 THEN Add(res, "ten_rebound_games", "ten_rebound_game", d, b)
        ELSE res

\* === ASSIST MILESTONES ===
Assists(res, b) ==
    LET ast == b.stats.ast.v
        d   == ToString(ast) \o " assists"
    IN  IF ast >= 20 THEN Add(res, "twenty_assist_games", "twenty_assist_game", d, b)
        ELSE IF ast >= 15 THEN Add(res, "fifteen_assist_games", "fifteen_assist_game", d, b)
        ELSE IF ast >= 12 THEN Add(res, "twelve_assist_games", "twelve_assist_game", d, b)
        ELSE IF ast >= 10 THEN Add(res, "ten_assist_games", "ten_assist_game", d, b)
        ELSE res

\* === STEAL MILESTONES ===
Steals(res, b) ==
    LET stl == b.stats.stl.v
        d   == ToString(stl) \o " steals"
    IN  IF stl >= 10 THEN Add(res, "ten_steal_games", "ten_steal_game", d, b)
        ELSE IF stl >= 7 THEN Add(res, "seven_steal_games", "seven_steal_game", d, b)
        ELSE IF stl >= 5 THEN Add(res, "five_steal_games", "five_steal_game", d, b)
        ELSE IF stl >= 4 THEN Add(res, "four_steal_games", "four_steal_game", d, b)
        ELSE res

\* === BLOCK MILESTONES ===
Blocks(res, b) ==
    LET blk == b.stats.blk.v
        d   == ToString(blk) \o " blocks"
    IN  IF blk >= 10 THEN Add(res, "ten_block_games", "ten_block_game", d, b)
        ELSE IF blk >= 7 THEN Add(res, "seven_block_games", "seven_block_game", d, b)
        ELSE IF blk >= 5 THEN Add(res, "five_block_games", "five_block_game", d, b)
        ELSE IF blk >= 4 THEN Add(res, "four_block_games", "four_block_game", d, b)
        ELSE res

\* variant: the lowest rung is an `if` of its own instead of an `elif`
ThreeLadder_last_if(res, b) ==
    LET fg3 == b.stats.fg3.v
        d   == ToString(fg3) \o " three-pointers"
        r1  == IF fg3 >= 10 THEN Add(res, "ten_three_games", "ten_three_game", d, b)
               ELSE IF fg3 >= 8 THEN Add(res, "eight_three_games", "eight_three_game", d, b)
               ELSE IF fg3 >= 7 THEN Add(res, "seven_three_games", "seven_three_game", d, b)
               ELSE IF fg3 >= 6 THEN Add(res, "six_three_games", "six_three_game", d, b)
               ELSE res
    IN  IF fg3 >= 5 THEN Add(r1, "five_three_games", "five_three_game", d, b)
        ELSE r1

\* === THREE-POINTER MILESTONES === (the fg3 ladder)
ThreeLadder(res, b) ==
    LET fg3 == b.stats.fg3.v
        d   == ToString(fg3) \o " three-pointers"
    IN  IF fg3 >= 10 THEN Add(res, "ten_three_games", "ten_three_game", d, b)
        ELSE IF fg3 >= 8 THEN Add(res, "eight_three_games", "eight_three_game", d, b)
        ELSE IF fg3 >= 7 THEN Add(res, "seven_three_games", "seven_three_game", d, b)
        ELSE IF fg3 >= 6 THEN Add(res, "six_three_games", "six_three_game", d, b)
        ELSE IF fg3 >= 5 THEN Add(res, "five_three_games", "five_three_game", d, b)
        ELSE res

\* the perfect_from_three check that follows the fg3 ladder
PerfectThree(res, b) ==
    IF is_perfect_from_three(b.stats, 4)
    THEN Add(res, "perfect_from_three", "perfect_from_three",
             ToString(b.stats.fg3.v) \o "/" \o ToString(b.stats.fg3a.v)
                 \o " from three (100%)", b)
    ELSE res

\* variant: the perfect-FG check is an `elif` of the perfect-FT check
Efficiency_elif(res, b) ==
    LET st  == b.stats
        pts == st.pts.v
        fg  == st.fg.v
        fga == st.fga.v
        ft  == st.ft.v
        fta == st.fta.v
        fg_pct == IF fga > 0 THEN Str1(RoundDiv(1000 * fg, fga)) ELSE "0"
        ts     == calculate_true_shooting(pts, fga, fta)
        ts_pct == IF ts.k # "none" /\ ts.v # 0 THEN Str1(ts.v) ELSE "0"
        r1 == IF is_hot_shooting(st, 10)
              THEN Add(res, "hot_shooting_games", "hot_shooting_game",
                       ToString(fg) \o "/" \o ToString(fga) \o " FG ("
                           \o fg_pct \o "%)", b)
              ELSE res
        r3 == IF is_perfect_ft(st, 5)
              THEN Add(r1, "perfect_ft_games", "perfect_ft_game",
                       ToString(ft) \o "/" \o ToString(fta) \o " FT (100%)", b)
              ELSE IF is_perfect_fg(st, 5)
              THEN Add(r1, "perfect_fg_games", "perfect_fg_game",
                       ToString(fg) \o "/" \o ToString(fga) \o " FG (100%)", b)
              ELSE r1
    IN  IF is_efficient_scoring(st, 650, 15)
        THEN Add(r3, "efficient_scoring_games", "efficient_scoring_game",
                 ToString(pts) \o " points on " \o ts_pct \o "% TS", b)
        ELSE r3

\* === EFFICIENCY MILESTONES === (hot shooting, perfect FT, perfect FG,
\* efficient scoring)
Efficiency(res, b) ==
    LET st  == b.stats
        pts == st.pts.v
        fg  == st.fg.v
        fga == st.fga.v
        ft  == st.ft.v
        fta == st.fta.v
        fg_pct == IF fga > 0 THEN Str1(RoundDiv(1000 * fg, fga)) ELSE "0"
        ts     == calculate_true_shooting(pts, fga, fta)
        ts_pct == IF ts.k # "none" /\ ts.v # 0 THEN Str1(ts.v) ELSE "0"
        r1 == IF is_hot_shooting(st, 10)
              THEN Add(res, "hot_shooting_games", "hot_shooting_game",
                       ToString(fg) \o "/" \o ToString(fga) \o " FG ("
                           \o fg_pct \o "%)", b)
              ELSE res
        r2 == IF is_perfect_ft(st, 5)
              THEN Add(r1, "perfect_ft_games", "perfect_ft_game",
                       ToString(ft) \o "/" \o ToString(fta) \o " FT (100%)", b)
              ELSE r1
        r3 == IF is_perfect_fg(st, 5)
              THEN Add(r2, "perfect_fg_games", "perfect_fg_game",
                       ToString(fg) \o "/" \o ToString(fga) \o " FG (100%)", b)
              ELSE r2
    IN  IF is_efficient_scoring(st, 650, 15)
        THEN Add(r3, "efficient_scoring_games", "efficient_scoring_game",
                 ToString(pts) \o " points on " \o ts_pct \o "% TS", b)
        ELSE r3

\* game_score = calculate_game_score(stats); if game_score >= 35: ...
\* (stats is the dict built by the engine; 35 is 350 tenths)
HighGameScore(res, b) ==
    LET game_score == calculate_game_score(b.stats)
    IN  IF game_score >= 350
        THEN Add(res, "high_game_score", "high_game_score",
                 "Game Score: " \o Str1(game_score), b)
        ELSE res

\* variant: rebounds and assists are both required
CombinedLadder_and(res, b) ==
    LET pts == b.stats.pts.v
        trb == b.stats.trb.v
        ast == b.stats.ast.v
        d   == ToString(pts) \o " pts, " \o ToString(trb) \o " reb, "
                   \o ToString(ast) \o " ast"
    IN  IF pts >= 30 /\ (trb >= 10 /\ ast >= 10)
        THEN Add(res, "thirty_ten_games", "thirty_ten_game", d, b)
        ELSE IF pts >= 25 /\ (trb >= 10 /\ ast >= 10)
        THEN Add(res, "twenty_five_ten_games", "twenty_five_ten_game", d, b)
        ELSE IF pts >= 20 /\ (trb >= 10 /\ ast >= 10)
        THEN Add(res, "twenty_ten_games", "twenty_ten_game", d, b)
        ELSE res

\* === COMBINED MILESTONES === (the 30-10 / 25-10 / 20-10 ladder)
CombinedLadder(res, b) ==
    LET pts == b.stats.pts.v
        trb == b.stats.trb.v
        ast == b.stats.ast.v
        d   == ToString(pts) \o " pts, " \o ToString(trb) \o " reb, "
                   \o ToString(ast) \o " ast"
    IN  IF pts >= 30 /\ (trb >= 10 \/ ast >= 10)
        THEN Add(res, "thirty_ten_games", "thirty_ten_game", d, b)
        ELSE IF pts >= 25 /\ (trb >= 10 \/ ast >= 10)
        THEN Add(res, "twenty_five_ten_games", "twenty_five_ten_game", d, b)
        ELSE IF pts >= 20 /\ (trb >= 10 \/ ast >= 10)
        THEN Add(res, "twenty_ten_games", "twenty_ten_game", d, b)
        ELSE res

\* 20-10-5, 20-20 and points-assists double-double
CombinedFlags(res, b) ==
    LET pts == b.stats.pts.v
        trb == b.stats.trb.v
        ast == b.stats.ast.v
        r1 == IF pts >= 20 /\ trb >= 10 /\ ast >= 5
              THEN Add(res, "twenty_ten_five_games", "twenty_ten_five_game",
                       ToString(pts) \o " pts, " \o ToString(trb) \o " reb, "
                           \o ToString(ast) \o " ast", b)
              ELSE res
        r2 == IF pts >= 20 /\ trb >= 20
              THEN Add(r1, "twenty_twenty_games", "twenty_twenty_game",
                       ToString(pts) \o " points, " \o ToString(trb)
                           \o " rebounds", b)
              ELSE r1
    IN  IF pts >= 10 /\ ast >= 10 /\ trb < 10
        THEN Add(r2, "points_assists_double_double",
                 "points_assists_double_double",
                 ToString(pts) \o " pts, " \o ToString(ast) \o " ast", b)
        ELSE r2

\* === DEFENSIVE MILESTONES ===
Defensive(res, b) ==
    IF is_defensive_monster(b.stats, 7)
    THEN Add(res, "defensive_monster_games", "defensive_monster_game",
             ToString(b.stats.stl.v) \o " steals, " \o ToString(b.stats.blk.v)
                 \o " blocks", b)
    ELSE res

\* f'{mp:.0f}' for a number that is at least 0: no decimals, ties to even
Format0f(mp) ==
    IF mp.k = "int" THEN ToString(mp.v)
    ELSE IF mp.k = "float" THEN ToString(RoundDiv(mp.v, mp.d))
    ELSE IF mp.k = "inf" THEN "inf"
    ELSE "nan"

\* === CLEAN GAMES ===
CleanGames(res, b) ==
    IF is_zero_turnover_game(b.stats, 20)
    THEN Add(res, "zero_turnover_games", "zero_turnover_game",
             "0 turnovers in " \o Format0f(b.stats.mp) \o " minutes", b)
    ELSE res

\* variant: the +20 rung is an `if` of its own instead of an `elif`
PlusLadder_both(res, b) ==
    LET plus_minus == b.stats.plus_minus.v
        r1 == IF plus_minus >= 25
              THEN Add(res, "plus_25_games", "plus_25_game",
                       "+" \o ToString(plus_minus), b)
              ELSE res
    IN  IF plus_minus >= 20
        THEN Add(r1, "plus_20_games", "plus_20_game",
                 "+" \o ToString(plus_minus), b)
        ELSE r1

\* === PLUS/MINUS MILESTONES === (the +25 / +20 ladder)
PlusLadder(res, b) ==
    LET plus_minus == b.stats.plus_minus.v
    IN  IF plus_minus >= 25
        THEN Add(res, "plus_25_games", "plus_25_game",
                 "+" \o ToString(plus_minus), b)
        ELSE IF plus_minus >= 20
        THEN Add(res, "plus_20_games", "plus_20_game",
                 "+" \o ToString(plus_minus), b)
        ELSE res

\* if plus_minus <= -25: ...
MinusCheck(res, b) ==
    LET plus_minus == b.stats.plus_minus.v
    IN  IF plus_minus <= -25
        THEN Add(res, "minus_25_games", "minus_25_game",
                 ToString(plus_minus), b)
        ELSE res

\* the stats dict the engine builds from a player mapping: thirteen
\* safe_int reads and mp; it has no other key
ExtractStats(player) ==
    [ pts  |-> I(safe_int(get(player, "pts", I(0)), 0)),
      trb  |-> I(safe_int(get(player, "trb", I(0)), 0)),
      ast  |-> I(safe_int(get(player, "ast", I(0)), 0)),
      stl  |-> I(safe_int(get(player, "stl", I(0)), 0)),
      blk  |-> I(safe_int(get(player, "blk", I(0)), 0)),
      fg3  |-> I(safe_int(get(player, "fg3", I(0)), 0)),
      fg3a |-> I(safe_int(get(player, "fg3a", I(0)), 0)),
      fg   |-> I(safe_int(get(player, "fg", I(0)), 0)),
      fga  |-> I(safe_int(get(player, "fga", I(0)), 0)),
      ft   |-> I(safe_int(get(player, "ft", I(0)), 0)),
      fta  |-> I(safe_int(get(player, "fta", I(0)), 0)),
      tov  |-> I(safe_int(get(player, "tov", I(0)), 0)),
      plus_minus |-> I(safe_int(get(player, "plus_minus", I(0)), 0)),
      mp   |-> LET Parsed(mp) ==
                       IF mp.k = "str" THEN mp.minutes ELSE mp
               IN  Parsed(get(player, "mp", I(0))),
      orb  |-> Missing,
      drb  |-> Missing,
      pf   |-> Missing ]

\* the thirteen fields the engine reads with safe_int
IntFields ==
    { "pts", "trb", "ast", "stl", "blk", "fg3", "fg3a", "fg", "fga", "ft",
      "fta", "tov", "plus_minus" }

\* one of the thirteen safe_int reads of the engine raises
ExtractStats_raises(player) ==
    \E f \in IntFields : safe_int_raises(get(player, f, I(0)))

\* variant: the player's team and the opponent change places
BaseEntry_teams_swapped(player, team, opponent, game_id, date, side) ==
    [ player    |-> player.name,
      player_id |-> player.player_id,
      team      |-> opponent,
      opponent  |-> team,
      game_id   |-> game_id,
      date      |-> date,
      side      |-> side,
      stats     |-> ExtractStats(player) ]

\* base_entry of _check_player_milestones: what every entry of the player
\* carries
BaseEntry(player, team, opponent, game_id, date, side) ==
    [ player    |-> player.name,
      player_id |-> player.player_id,
      team      |-> team,
      opponent  |-> opponent,
      game_id   |-> game_id,
      date      |-> date,
      side      |-> side,
      stats     |-> ExtractStats(player) ]

\* the checks from is_zero_turnover_game on: the call raises there with the
\* entries of the earlier families already stored, or runs to its end
FromCleanGames(res, b) ==
    IF is_zero_turnover_game_raises(b.stats)
    THEN [res |-> res, raised |-> TRUE]
    ELSE [res    |-> MinusCheck(PlusLadder(CleanGames(res, b), b), b),
          raised |-> FALSE]

\* the families of checks in the order the method runs them
Families(res, b) ==
    LET r1  == MultiCategory(res, b)
        r2  == Scoring(r1, b)
        r3  == Rebounding(r2, b)
        r4  == Assists(r3, b)
        r5  == Steals(r4, b)
        r6  == Blocks(r5, b)
        r7  == ThreeLadder(r6, b)
        r8  == PerfectThree(r7, b)
        r9  == Efficiency(r8, b)
        r10 == HighGameScore(r9, b)
        r11 == CombinedLadder(r10, b)
        r12 == CombinedFlags(r11, b)
        r13 == Defensive(r12, b)
    IN  FromCleanGames(r13, b)

\* MilestoneEngine._check_player_milestones: the store as the call leaves
\* it, and whether it left by raising.  The reads raise before anything is
\* appended; is_zero_turnover_game raises after the defensive family.
check_player_milestones(res, player, team, opponent, game_id, date, side) ==
    IF ExtractStats_raises(player) THEN [res |-> res, raised |-> TRUE]
    ELSE Families(res, BaseEntry(player, team, opponent, game_id, date, side))

-----------------------------------------------------------------------------
(* Game mappings.  An optional key is [has, val]: has = FALSE when the key *)
(* is absent (val is then an unused placeholder).                          *)

Absent(placeholder) == [has |-> FALSE, val |-> placeholder]
Some(x) == [has |-> TRUE, val |-> x]

\* d.get(key, default) on a game mapping
getk(opt, default) == IF opt.has THEN opt.val ELSE default

\* variant: `if 'players' not in side_data:` in place of `if not players:`
get_players_for_side_absent_only(box_score, side) ==
    LET side_data == getk(box_score[side],
                          [players |-> Absent(<< >>), basic |-> Absent(<< >>)])
    IN  IF side_data.players.has THEN side_data.players.val
        ELSE getk(side_data.basic, << >>)

\* get_players_for_side: 'players' unless absent or empty, then 'basic'
get_players_for_side(box_score, side) ==
    LET side_data == getk(box_score[side],
                          [players |-> Absent(<< >>), basic |-> Absent(<< >>)])
        players   == getk(side_data.players, << >>)
    IN  IF players = << >> THEN getk(side_data.basic, << >>) ELSE players

\* for player in roster: self._check_player_milestones(...), entered with
\* the outcome so far: nothing more runs once a call has raised
RECURSIVE ForPlayers(_, _, _, _, _, _, _, _)
ForPlayers(out, roster, i, team, opponent, game_id, date, side) ==
    IF out.raised \/ i > Len(roster) THEN out
    ELSE ForPlayers(check_player_milestones(out.res, roster[i], team, opponent,
                                            game_id, date, side),
                    roster, i + 1, team, opponent, game_id, date, side)

\* the parts of a game mapping _process_game reads, each with its default
GameParts(game) ==
    LET basic_info == getk(game.basic_info,
                           [date |-> Absent(""), date_yyyymmdd |-> Absent(""),
                            home_team |-> Absent(""), away_team |-> Absent("")])
    IN  [ game_id   |-> getk(game.game_id, ""),
          date      |-> getk(basic_info.date,
                             getk(basic_info.date_yyyymmdd, "")),
          team      |-> [home |-> getk(basic_info.home_team, ""),
                         away |-> getk(basic_info.away_team, "")],
          box_score |-> getk(game.box_score,
                             [away |-> Absent([players |-> Absent(<< >>),
                                               basic |-> Absent(<< >>)]),
                              home |-> Absent([players |-> Absent(<< >>),
                                               basic |-> Absent(<< >>)])]) ]

\* the two roster loops of _process_game over the parts g of a game, the
\* roster of side `first` before the other one
RosterLoops(res, first, second, g) ==
    ForPlayers(ForPlayers([res |-> res, raised |-> FALSE],
                          get_players_for_side(g.box_score, first), 1,
                          g.team[first], g.team[second], g.game_id, g.date,
                          first),
               get_players_for_side(g.box_score, second), 1,
               g.team[second], g.team[first], g.game_id, g.date, second)

\* variant: the home roster is processed before the away roster
process_game_home_first(res, game) ==
    RosterLoops(res, "home", "away", GameParts(game))

\* variant: game['box_score'] in place of game.get('box_score', {}), which
\* raises KeyError when the key is absent
process_game_subscript(res, game) ==
    IF ~game.box_score.has THEN [res |-> res, raised |-> TRUE]
    ELSE RosterLoops(res, "away", "home", GameParts(game))

\* variant: the second loop walks the away roster again
process_game_away_twice(res, game) ==
    RosterLoops(res, "away", "away", GameParts(game))

\* MilestoneEngine._process_game: the away roster, then the home roster
process_game(res, game) ==
    RosterLoops(res, "away", "home", GameParts(game))

-----------------------------------------------------------------------------
(* MilestoneResults.to_dict *)

\* dir(self): the attribute names in sorted order -- dunder names first
\* (of which a few are listed), then the fields and the two methods
dir_results ==
    << "__class__", "__dataclass_fields__", "__dict__", "__eq__", "__init__",
       "__repr__",
       "all_around_games", "defensive_monster_games", "double_doubles",
       "efficient_scoring_games", "eight_three_games",
       "eighteen_rebound_games", "fifteen_assist_games",
       "fifteen_rebound_games", "fifty_point_games", "five_block_games",
       "five_by_fives", "five_steal_games", "five_three_games",
       "forty_five_point_games", "forty_point_games", "four_block_games",
       "four_steal_games", "get_milestone_count", "high_game_score",
       "hot_shooting_games", "minus_25_games", "near_double_doubles",
       "near_triple_doubles", "perfect_fg_games", "perfect_from_three",
       "perfect_ft_games", "plus_20_games", "plus_25_games",
       "points_assists_double_double", "quadruple_doubles",
       "seven_block_games", "seven_steal_games", "seven_three_games",
       "seventy_point_games", "six_three_games", "sixty_point_games",
       "ten_assist_games", "ten_block_games", "ten_rebound_games",
       "ten_steal_games", "ten_three_games", "thirty_five_point_games",
       "thirty_point_games", "thirty_ten_games", "to_dict", "triple_doubles",
       "twelve_assist_games", "twelve_rebound_games", "twenty_assist_games",
       "twenty_five_point_games", "twenty_five_rebound_games",
       "twenty_five_ten_games", "twenty_point_games", "twenty_rebound_games",
       "twenty_ten_five_games", "twenty_ten_games", "twenty_twenty_games",
       "zero_turnover_games" >>

\* getattr(self, attr_name): a field holds its list, any other attribute
\* (a method, a dunder) holds something that is not a list
getattr(res, attr_name) ==
    IF attr_name \in DOMAIN res
    THEN [k |-> "list", v |-> res[attr_name]]
    ELSE [k |-> "other", v |-> << >>]

\* the record to_dict builds from one entry
EntryDict(e) ==
    [ milestone_type |-> e.milestone_type,
      player         |-> e.player,
      player_id      |-> e.player_id,
      team           |-> e.team,
      opponent       |-> e.opponent,
      game_id        |-> e.game_id,
      date           |-> e.date,
      date_yyyymmdd  |-> e.date_yyyymmdd,
      side           |-> e.side,
      stats          |-> e.stats,
      detail         |-> e.detail ]

\* variant: `if value:` in place of `if isinstance(value, list):`
to_dict_nonempty_only(res) ==
    LET keys == { dir_results[i] : i \in
                    { j \in 1..Len(dir_results) :
                        /\ SubSeq(dir_results[j], 1, 1) # "_"
                        /\ dir_results[j] # "to_dict"
                        /\ getattr(res, dir_results[j]).v # << >> } }
    IN  [ a \in keys |->
            [ k \in 1..Len(res[a]) |-> EntryDict(res[a][k]) ] ]

to_dict(res) ==
    LET keys == { dir_results[i] : i \in
                    { j \in 1..Len(dir_results) :
                        /\ SubSeq(dir_results[j], 1, 1) # "_"
                        /\ dir_results[j] # "to_dict"
                        /\ getattr(res, dir_results[j]).k = "list" } }
    IN  [ a \in keys |->
            [ k \in 1..Len(res[a]) |-> EntryDict(res[a][k]) ] ]

-----------------------------------------------------------------------------
(* MilestoneResults.get_milestone_count, MilestoneEngine.get_milestone_summary *)

\* the test both methods apply to an attribute name before reading it
IsPublicData(attr_name) ==
    /\ SubSeq(attr_name, 1, 1) # "_"
    /\ attr_name \notin { "to_dict", "get_milestone_count" }

\* variant: `count = len(value)` in place of `count += len(value)`
get_milestone_count_assign(res) ==
    LET count[i \in 0..Len(dir_results)] ==
            IF i = 0 THEN 0
            ELSE LET value == getattr(res, dir_results[i])
                 IN  IF IsPublicData(dir_results[i]) /\ value.k = "list"
                     THEN Len(value.v)
                     ELSE count[i - 1]
    IN  count[Len(dir_results)]

\* count[i]: the value of `count` after the first i names of dir(self)
get_milestone_count(res) ==
    LET count[i \in 0..Len(dir_results)] ==
            IF i = 0 THEN 0
            ELSE LET value == getattr(res, dir_results[i])
                 IN  IF IsPublicData(dir_results[i]) /\ value.k = "list"
                     THEN count[i - 1] + Len(value.v)
                     ELSE count[i - 1]
    IN  count[Len(dir_results)]

\* variant: `if value:` in place of `if isinstance(value, list):`
get_milestone_summary_nonempty_only(res) ==
    LET keys == { dir_results[i] : i \in
                    { j \in 1..Len(dir_results) :
                        /\ IsPublicData(dir_results[j])
                        /\ getattr(res, dir_results[j]).v # << >> } }
    IN  [ a \in keys |-> Len(getattr(res, a).v) ]

get_milestone_summary(res) ==
    LET keys == { dir_results[i] : i \in
                    { j \in 1..Len(dir_results) :
                        /\ IsPublicData(dir_results[j])
                        /\ getattr(res, dir_results[j]).k = "list" } }
    IN  [ a \in keys |-> Len(getattr(res, a).v) ]

\* MILESTONE_DESCRIPTIONS: the display text of each category
MILESTONE_DESCRIPTIONS ==
    [ quadruple_doubles |-> "Quadruple-Double (10+ in 4 categories)",
      triple_doubles |-> "Triple-Double (10+ in 3 categories)",
      double_doubles |-> "Double-Double (10+ in 2 categories)",
      near_triple_doubles |-> "Near Triple-Double (2 at 10+, 1 at 8-9)",
      near_double_doubles |-> "Near Double-Double (1 at 10+, 1 at 8-9)",
      five_by_fives |-> "5x5 Game (5+ in all 5 categories)",
      all_around_games |-> "All-Around Game (5+ in 5 or 8+ in 4 categories)",
      seventy_point_games |-> "70+ Point Games",
      sixty_point_games |-> "60+ Point Games",
      fifty_point_games |-> "50+ Point Games",
      forty_five_point_games |-> "45+ Point Games",
      forty_point_games |-> "40+ Point Games",
      thirty_five_point_games |-> "35+ Point Games",
      thirty_point_games |-> "30+ Point Games",
      twenty_five_point_games |-> "25+ Point Games",
      twenty_point_games |-> "20+ Point Games",
      twenty_five_rebound_games |-> "25+ Rebound Games",
      twenty_rebound_games |-> "20+ Rebound Games",
      eighteen_rebound_games |-> "18+ Rebound Games",
      fifteen_rebound_games |-> "15+ Rebound Games",
      twelve_rebound_games |-> "12+ Rebound Games",
      ten_rebound_games |-> "10+ Rebound Games",
      twenty_assist_games |-> "20+ Assist Games",
      fifteen_assist_games |-> "15+ Assist Games",
      twelve_assist_games |-> "12+ Assist Games",
      ten_assist_games |-> "10+ Assist Games",
      ten_steal_games |-> "10+ Steal Games",
      seven_steal_games |-> "7+ Steal Games",
      five_steal_games |-> "5+ Steal Games",
      four_steal_games |-> "4+ Steal Games",
      ten_block_games |-> "10+ Block Games",
      seven_block_games |-> "7+ Block Games",
      five_block_games |-> "5+ Block Games",
      four_block_games |-> "4+ Block Games",
      ten_three_games |-> "10+ Three-Pointer Games",
      eight_three_games |-> "8+ Three-Pointer Games",
      seven_three_games |-> "7+ Three-Pointer Games",
      six_three_games |-> "6+ Three-Pointer Games",
      five_three_games |-> "5+ Three-Pointer Games",
      perfect_from_three |-> "Perfect from Three (4+ attempts)",
      hot_shooting_games |-> "Hot Shooting (60%+ FG, 10+ attempts)",
      perfect_ft_games |-> "Perfect Free Throws (5+ attempts)",
      perfect_fg_games |-> "Perfect from Field (5+ attempts)",
      efficient_scoring_games |-> "Efficient Scoring (65%+ TS, 15+ pts)",
      high_game_score |-> "High Game Score (35+)",
      thirty_ten_games |-> "30-10 Games (30+ pts, 10+ reb/ast)",
      twenty_five_ten_games |-> "25-10 Games (25+ pts, 10+ reb/ast)",
      twenty_ten_games |-> "20-10 Games (20+ pts, 10+ reb/ast)",
      twenty_ten_five_games |-> "20-10-5 Games",
      twenty_twenty_games |-> "20-20 Games (20+ pts, 20+ reb)",
      points_assists_double_double |-> "Points-Assists Double-Double",
      defensive_monster_games |-> "Defensive Monster (7+ stl+blk)",
      zero_turnover_games |-> "Zero Turnover Games (20+ min)",
      plus_25_games |-> "+25 Plus/Minus Games",
      plus_20_games |-> "+20 Plus/Minus Games",
      minus_25_games |-> "-25 Plus/Minus Games" ]

-----------------------------------------------------------------------------
(* MilestoneEngine.get_player_milestones *)

\* the entries of one list whose player matches, in list order
MatchesIn(value, player_lower) ==
    LET out[k \in 0..Len(value)] ==
            IF k = 0 THEN << >>
            ELSE IF lower(value[k].player) = player_lower
                 THEN Append(out[k - 1], value[k])
                 ELSE out[k - 1]
    IN  out[Len(value)]

\* variant: `entry.player == player_name`, no case folding
get_player_milestones_case_sensitive(res, player_name) ==
    LET out[i \in 0..Len(dir_results)] ==
            IF i = 0 THEN << >>
            ELSE LET value == getattr(res, dir_results[i])
                 IN  IF IsPublicData(dir_results[i]) /\ value.k = "list"
                     THEN out[i - 1] \o
                          SelectSeq(value.v, LAMBDA e : e.player = player_name)
                     ELSE out[i - 1]
    IN  out[Len(dir_results)]

\* out[i]: player_milestones after the first i names of dir(self.results)
get_player_milestones(res, player_name) ==
    LET player_lower == lower(player_name)
        out[i \in 0..Len(dir_results)] ==
            IF i = 0 THEN << >>
            ELSE LET value == getattr(res, dir_results[i])
                 IN  IF IsPublicData(dir_results[i]) /\ value.k = "list"
                     THEN out[i - 1] \o MatchesIn(value.v, player_lower)
                     ELSE out[i - 1]
    IN  out[Len(dir_results)]

-----------------------------------------------------------------------------
(* Inputs *)

\* a player mapping with no stat key at all
Blank ==
    [ name |-> "LeBron James", player_id |-> "jamesle01",
      pts |-> Missing, trb |-> Missing, ast |-> Missing, stl |-> Missing,
      blk |-> Missing, fg3 |-> Missing, fg3a |-> Missing, fg |-> Missing,
      fga |-> Missing, ft |-> Missing, fta |-> Missing, tov |-> Missing,
      plus_minus |-> Missing, mp |-> Missing,
      orb |-> Missing, drb |-> Missing, pf |-> Missing ]

\* the five base categories, each absent-as-None, 5, 8 or 10
BaseVals == { None, I(5), I(8), I(10) }

MultiRecords ==
    { [Blank EXCEPT !.pts = a, !.trb = b, !.ast = c, !.stl = d, !.blk = e] :
        a \in BaseVals, b \in BaseVals, c \in BaseVals, d \in BaseVals,
        e \in BaseVals }

\* one stat swept over 0..Max, everything else absent
SweepRecords ==
    { [Blank EXCEPT !.pts = I(n)] : n \in 0..MaxPts }
    \cup { [Blank EXCEPT !.trb = I(n)] : n \in 0..MaxTrb }
    \cup { [Blank EXCEPT !.ast = I(n)] : n \in 0..MaxAst }
    \cup { [Blank EXCEPT !.stl = I(n)] : n \in 0..MaxStl }
    \cup { [Blank EXCEPT !.blk = I(n)] : n \in 0..MaxBlk }
    \cup { [Blank EXCEPT !.plus_minus = I(n)] : n \in (-MaxPlusMinus)..MaxPlusMinus }

ThreeRecords ==
    { [Blank EXCEPT !.fg3 = I(m), !.fg3a = I(a)] :
        m \in 0..MaxFg3, a \in 0..MaxFg3 }

CombinedRecords ==
    { [Blank EXCEPT !.pts = I(p), !.trb = I(r), !.ast = I(a)] :
        p \in {9, 10, 19, 20, 24, 25, 29, 30}, r \in {9, 10, 19, 20},
        a \in {4, 5, 9, 10} }

\* shooting lines: makes are all, none, or around 60% of the attempts
FgOf(fga) == { x \in {0, fga, fga - 1, (3 * fga) \div 5, (3 * fga + 4) \div 5} : x >= 0 }
FtOf(fta) == { x \in {fta, fta - 1} : x >= 0 }

EfficiencyRecords ==
    UNION { { [Blank EXCEPT !.pts = I(p), !.fga = I(a), !.fta = I(t),
                            !.fg = I(m), !.ft = I(f)] :
                m \in FgOf(a), f \in FtOf(t) } :
            p \in {14, 15, 17, 26, 29, 30}, a \in {0, 4, 5, 9, 10, 20, 21},
            t \in {0, 3, 4, 5, 6, 7} }

\* lines around a Game Score of 35, with and without orb / drb / pf
GameScoreRecords ==
    { [Blank EXCEPT !.pts = I(p), !.fg = I(15), !.fga = I(25), !.ast = I(a),
                    !.tov = I(t), !.orb = o, !.drb = d, !.pf = f] :
        p \in {30, 40}, a \in {0, 9, 10, 12, 15}, t \in {0, 1, 2, 4},
        o \in {Missing, I(10)}, d \in {Missing, I(10)}, f \in {Missing, I(5)} }

CleanRecords ==
    { [Blank EXCEPT !.tov = t, !.mp = m] :
        t \in {Missing, None, I(0), I(1)}, m \in {Missing, I(19), I(20), I(35)} }

PlayerRecords ==
    MultiRecords \cup SweepRecords \cup ThreeRecords \cup CombinedRecords
    \cup EfficiencyRecords \cup GameScoreRecords \cup CleanRecords

\* a game mapping with both rosters under 'players'
Game(game_id, away, home) ==
    [ game_id    |-> Some(game_id),
      basic_info |-> Some([ date          |-> Some("January 15, 2024"),
                            date_yyyymmdd |-> Absent(""),
                            home_team     |-> Some("Los Angeles Lakers"),
                            away_team     |-> Some("Boston Celtics") ]),
      box_score  |-> Some([ away |-> Some([players |-> Some(away),
                                           basic   |-> Absent(<< >>)]),
                            home |-> Some([players |-> Some(home),
                                           basic   |-> Absent(<< >>)]) ]) ]

\* the id of the k-th game of a batch: "202401110LAL", "202401120LAL", ...
GameIdAt(k) == "2024011" \o ToString(k) \o "0LAL"

\* batches of one game with one away player, over all player records
SingleBatches == { << Game(GameIdAt(1), << p >>, << >>) >> : p \in PlayerRecords }

\* the players of the multi-game batches
SmallPlayers ==
    { [Blank EXCEPT !.pts = I(20), !.trb = I(15), !.ast = I(12),
                    !.stl = I(10), !.blk = I(5), !.tov = I(0), !.mp = I(38)],
      [Blank EXCEPT !.name = "Stephen Curry", !.player_id = "curryst01",
                    !.pts = I(45), !.fg3 = I(8), !.fg3a = I(12),
                    !.ast = I(9), !.tov = I(0), !.mp = I(36)] }

\* rosters of distinct players, at most MaxRoster long
Rosters ==
    { r \in UNION { [1..n -> SmallPlayers] : n \in 0..MaxRoster } :
        \A i, j \in 1..Len(r) : i # j => r[i].player_id # r[j].player_id }

\* the away and home rosters of one game: two rosters of the same length
RosterPairs == { p \in Rosters \X Rosters : Len(p[1]) = Len(p[2]) }

\* batches of at most MaxGames games; the k-th game has id GameIdAt(k)
MultiBatches ==
    { [k \in 1..Len(rs) |-> Game(GameIdAt(k), rs[k][1], rs[k][2])] :
        rs \in UNION { [1..n -> RosterPairs] : n \in 0..MaxGames } }

\* what a box-score cell may hold in place of a plain count: None, a
\* float, a numeric string, an "MM:SS" string, text, another type
OddValues ==
    { None, I(-3), F(61, 2), F(-37, 10), F(30, 1), Inf, NegInf, NaN,
      S("30"), S("30.0"), S(" 12 "), S("-3.7"), S("+25"), S(".5"), S("7."),
      S("abc"), S(""), S("1.2.3"), S("nan"), S("inf"), S("-Infinity"),
      S("20:00"), Other }

\* what the 'mp' cell may hold
MinuteValues ==
    { None, I(25), I(19), F(71, 2), F(41, 2), F(39, 2), Inf, NegInf, NaN,
      S("20:00"), S("19:59"), S("25:30"), S("20:xx"), S(":"), S("20:"),
      S("1:2:3"), S(" 25:00"), S("-5:30"), S("abc"), S(""), S("25"),
      S(" 25.5 "), S("19.9"), S("inf"), S("nan"), Other }

\* player mappings with one odd cell; with an odd 'mp' next to each kind of
\* 'tov'; with pts and ast at 10 or more next to each kind of 'trb'; and
\* with an odd 'mp' after milestones that are appended before it is read
CoerceRecords ==
    { [Blank EXCEPT ![f] = x] : f \in IntFields, x \in OddValues }
    \cup { [Blank EXCEPT !.mp = m, !.tov = t] :
             m \in MinuteValues,
             t \in { Missing, None, I(0), I(1), S("0"), S("n/a") } }
    \cup { [Blank EXCEPT !.pts = I(12), !.ast = I(11), !.trb = t] :
             t \in { Missing, None, I(9), I(10), S("x"), S("10") } }
    \cup { [Blank EXCEPT !.pts = I(30), !.plus_minus = I(30), !.mp = m] :
             m \in { None, Other, I(30) } }

\* batches of one game with one away player, over the records above
CoerceBatches == { << Game(GameIdAt(1), << p >>, << >>) >> : p \in CoerceRecords }

\* one side of a box score: absent, or a mapping whose 'players' and 'basic'
\* keys are each absent, an empty list or a one-player list (LeBron James
\* under 'players', Stephen Curry under 'basic')
SideShapes ==
    LET LeBron == CHOOSE p \in SmallPlayers : p.player_id = "jamesle01"
        Curry  == CHOOSE p \in SmallPlayers : p.player_id = "curryst01"
    IN  { Absent([players |-> Absent(<< >>), basic |-> Absent(<< >>)]) }
        \cup { Some([players |-> p, basic |-> b]) :
                 p \in { Absent(<< >>), Some(<< >>), Some(<< LeBron >>) },
                 b \in { Absent(<< >>), Some(<< >>), Some(<< Curry >>) } }

\* the 'box_score' key: absent, or a mapping of the two sides
BoxShapes ==
    { Absent([away |-> Absent([players |-> Absent(<< >>), basic |-> Absent(<< >>)]),
              home |-> Absent([players |-> Absent(<< >>), basic |-> Absent(<< >>)])]) }
    \cup { Some([away |-> a, home |-> h]) : a \in SideShapes, h \in SideShapes }

\* the 'basic_info' key: absent, as Game writes it, or with date_yyyymmdd
\* in place of date and no team names
InfoShapes ==
    { Absent([date |-> Absent(""), date_yyyymmdd |-> Absent(""),
              home_team |-> Absent(""), away_team |-> Absent("")]),
      Game("", << >>, << >>).basic_info,
      Some([date |-> Absent(""), date_yyyymmdd |-> Some("20240115"),
            home_team |-> Absent(""), away_team |-> Absent("")]) }

\* the 'game_id' key: absent, shorter than 8 characters, exactly 8, longer
IdShapes == { Absent(""), Some("test"), Some("20240115"), Some(GameIdAt(1)) }

\* box scores of a game in a longer batch: absent, without the away side,
\* without the home side, with sides that hold no roster key, and complete
SequenceBoxes ==
    LET LeBron  == CHOOSE p \in SmallPlayers : p.player_id = "jamesle01"
        Curry   == CHOOSE p \in SmallPlayers : p.player_id = "curryst01"
        NoSide  == Absent([players |-> Absent(<< >>), basic |-> Absent(<< >>)])
        NoKeys  == Some([players |-> Absent(<< >>), basic |-> Absent(<< >>)])
        Away    == Some([players |-> Some(<< LeBron >>), basic |-> Absent(<< >>)])
        Home    == Some([players |-> Some(<< Curry >>), basic |-> Absent(<< >>)])
    IN  { Absent([away |-> NoSide, home |-> NoSide]),
          Some([away |-> NoSide, home |-> Home]),
          Some([away |-> Away, home |-> NoSide]),
          Some([away |-> NoKeys, home |-> NoKeys]),
          Some([away |-> Away, home |-> Home]) }

\* a game of a longer batch: basic_info as Game writes it and one of the
\* box scores above, or no basic_info and the complete box score
SequenceShapes ==
    { << Game("", << >>, << >>).basic_info, box >> : box \in SequenceBoxes }
    \cup { << i, box >> \in InfoShapes \X SequenceBoxes :
              /\ ~i.has
              /\ box.has /\ box.val["away"].has /\ box.val["home"].has
              /\ box.val["away"].val.players.has }

\* batches of two or more games; the k-th game has id GameIdAt(k)
SequenceBatches ==
    { [ k \in DOMAIN sh |->
          [ game_id    |-> Some(GameIdAt(k)),
            basic_info |-> sh[k][1],
            box_score  |-> sh[k][2] ] ] :
        sh \in UNION { [1..n -> SequenceShapes] : n \in 2..MaxGames } }

\* one-game batches over every shape of a game mapping, and the longer
\* batches above
ShapeBatches ==
    { << [game_id |-> id, basic_info |-> info, box_score |-> box] >> :
        id \in IdShapes, info \in InfoShapes, box \in BoxShapes }
    \cup SequenceBatches

\* the batches of the engine that is called again and again: the k-th game
\* has LeBron James away and Stephen Curry home, or LeBron James home alone
CallBatches ==
    LET LeBron == CHOOSE p \in SmallPlayers : p.player_id = "jamesle01"
        Curry  == CHOOSE p \in SmallPlayers : p.player_id = "curryst01"
    IN  { [ k \in DOMAIN both |->
              IF both[k] THEN Game(GameIdAt(k), << LeBron >>, << Curry >>)
                         ELSE Game(GameIdAt(k), << >>, << LeBron >>) ] :
            both \in UNION { [1..n -> BOOLEAN] : n \in 0..MaxGames } }

-----------------------------------------------------------------------------
(* The engine *)

\* before the first call has returned, the caller holds nothing
NothingReturned == Absent([games |-> << >>, res |-> MilestoneResults])

\* no helper is called directly while the engine runs
NoCall == [fn |-> "", args |-> << >>]
Pending == [k |-> "pending", v |-> 0]

\* MilestoneEngine.__init__
Init ==
    /\ results = MilestoneResults
    /\ games = << >>
    /\ gi = 1
    /\ pc = "idle"
    /\ returned = NothingReturned
    /\ call = NoCall
    /\ ret = Pending

\* variant: the call goes on with the store of the previous call
ProcessGames_keeps_store(gs) ==
    /\ pc \in { "idle", "raised" }
    /\ results' = results
    /\ games' = gs
    /\ gi' = 1
    /\ pc' = "running"
    /\ UNCHANGED <<returned, call, ret>>

\* process_games(gs) up to the loop: self.results = MilestoneResults()
ProcessGames(gs) ==
    /\ pc \in { "idle", "raised" }
    /\ results' = MilestoneResults
    /\ games' = gs
    /\ gi' = 1
    /\ pc' = "running"
    /\ UNCHANGED <<returned, call, ret>>

\* how one iteration ends: on to the next game, or out of process_games by
\* the exception, with what had been appended so far
Leave(out) ==
    /\ results' = out.res
    /\ gi' = IF out.raised THEN gi ELSE gi + 1
    /\ pc' = IF out.raised THEN "raised" ELSE pc

\* one iteration of `for game in games`: self._process_game(game)
ProcessGame ==
    /\ pc = "running"
    /\ gi <= Len(games)
    /\ Leave(process_game(results, games[gi]))
    /\ UNCHANGED <<games, returned, call, ret>>

\* the loop is exhausted: return self.results
Return ==
    /\ pc = "running"
    /\ gi > Len(games)
    /\ pc' = "idle"
    /\ returned' = Some([games |-> games, res |-> results])
    /\ UNCHANGED <<results, games, gi, call, ret>>

Next ==
    \/ \E gs \in CallBatches : ProcessGames(gs)
    \/ ProcessGame
    \/ Return

Spec == Init /\ [][Next]_vars

\* one process_games call on a one-player batch drawn from PlayerRecords
InitClassify ==
    /\ results = MilestoneResults
    /\ games \in SingleBatches
    /\ gi = 1
    /\ pc = "running"
    /\ returned = NothingReturned
    /\ call = NoCall
    /\ ret = Pending

NextClassify ==
    \/ ProcessGame
    \/ Return

SpecClassify == InitClassify /\ [][NextClassify]_vars

\* one process_games call on a batch of several games and rosters
InitBatch ==
    /\ results = MilestoneResults
    /\ games \in MultiBatches
    /\ gi = 1
    /\ pc = "running"
    /\ returned = NothingReturned
    /\ call = NoCall
    /\ ret = Pending

NextBatch ==
    \/ ProcessGame
    \/ Return

SpecBatch == InitBatch /\ [][NextBatch]_vars

\* one process_games call on a one-game batch drawn from ShapeBatches
InitShape ==
    /\ results = MilestoneResults
    /\ games \in ShapeBatches
    /\ gi = 1
    /\ pc = "running"
    /\ returned = NothingReturned
    /\ call = NoCall
    /\ ret = Pending

NextShape ==
    \/ ProcessGame
    \/ Return

SpecShape == InitShape /\ [][NextShape]_vars

\* one process_games call on a one-player batch drawn from CoerceRecords
InitCoerce ==
    /\ results = MilestoneResults
    /\ games \in CoerceBatches
    /\ gi = 1
    /\ pc = "running"
    /\ returned = NothingReturned
    /\ call = NoCall
    /\ ret = Pending

NextCoerce ==
    \/ ProcessGame
    \/ Return

SpecCoerce == InitCoerce /\ [][NextCoerce]_vars

\* one-game batches in which LeBron James shares the away roster with a
\* player whose 'pts' or 'tov' cell holds an odd value, or whose 'mp' cell
\* does while 'tov' is 0, listed before him or after him
MixedBatches ==
    LET LeBron == CHOOSE p \in SmallPlayers : p.player_id = "jamesle01"
        others == { [Blank EXCEPT !.name = "Stephen Curry",
                                  !.player_id = "curryst01", ![f] = x] :
                      f \in { "pts", "tov" }, x \in OddValues }
                  \cup { [Blank EXCEPT !.name = "Stephen Curry",
                                       !.player_id = "curryst01",
                                       !.tov = I(0), !.mp = m] :
                           m \in MinuteValues }
    IN  { << Game(GameIdAt(1), << p, LeBron >>, << >>) >> : p \in others }
        \cup { << Game(GameIdAt(1), << LeBron, p >>, << >>) >> : p \in others }

\* one process_games call on a batch drawn from MixedBatches
InitMixed ==
    /\ results = MilestoneResults
    /\ games \in MixedBatches
    /\ gi = 1
    /\ pc = "running"
    /\ returned = NothingReturned
    /\ call = NoCall
    /\ ret = Pending

NextMixed ==
    \/ ProcessGame
    \/ Return

SpecMixed == InitMixed /\ [][NextMixed]_vars

-----------------------------------------------------------------------------
(* Direct calls of the functions of utils/helpers.py.  A call is drawn by   *)
(* the initial state; the one step of the run applies the function and      *)
(* leaves in ret what the caller gets.                                      *)

Bool(b) == [k |-> "bool", v |-> b]          \* the call returned True / False
Raised == [k |-> "raised", v |-> 0]         \* the call left by an exception

\* a call of helper fn with the given positional arguments
Call(fn, args) == [fn |-> fn, args |-> args]

\* the engine does not run while a helper is called directly
EngineIdle ==
    /\ results = MilestoneResults
    /\ games = << >>
    /\ gi = 1
    /\ pc = "idle"
    /\ returned = NothingReturned

\* values of one base category in a stats dict passed to a helper: absent,
\* negative, below and at 10, a float, a numeric string
CategoryValues == { Missing, I(-12), I(9), F(21, 2), S("11.9") }

\* values of 'pts' in those dicts: the above, and None, 10, an unparsable
\* and a padded string, and the floats and strings int() cannot convert
PtsValues ==
    CategoryValues \cup { None, I(10), S("abc"), S(" 10 "), Inf, NaN, S("inf") }

\* stats dicts over the five base categories
CategoryStats ==
    { [c \in { "pts", "trb", "ast", "stl", "blk" } |->
          IF c = "pts" THEN p ELSE rest[c]] :
        p \in PtsValues, rest \in [{ "trb", "ast", "stl", "blk" } -> CategoryValues] }

\* the threshold argument: left out (the default 10), or given
Thresholds == { Absent(10), Some(9), Some(12) }

DoubleCalls ==
    { Call(fn, << st, t >>) :
        fn \in { "is_double_double", "is_triple_double", "is_quadruple_double" },
        st \in CategoryStats, t \in Thresholds }

\* the generator `safe_int(stats.get(cat, 0)) >= threshold for cat in
\* categories` raises when one of its safe_int calls does
CountAtLeast_raises(stats) ==
    \E i \in 1..Len(categories) :
        safe_int_raises(get(stats, categories[i], I(0)))

\* what a call of one of the three predicates gives
Counted(stats, answer) ==
    IF CountAtLeast_raises(stats) THEN Raised ELSE Bool(answer)

\* is_double_double(stats[, threshold])
IsDoubleDouble ==
    /\ call.fn = "is_double_double"
    /\ ret = Pending
    /\ ret' = Counted(call.args[1],
                      is_double_double(call.args[1], getk(call.args[2], 10)))
    /\ UNCHANGED <<results, games, gi, pc, returned, call>>

\* is_triple_double(stats[, threshold])
IsTripleDouble ==
    /\ call.fn = "is_triple_double"
    /\ ret = Pending
    /\ ret' = Counted(call.args[1],
                      is_triple_double(call.args[1], getk(call.args[2], 10)))
    /\ UNCHANGED <<results, games, gi, pc, returned, call>>

\* is_quadruple_double(stats[, threshold])
IsQuadrupleDouble ==
    /\ call.fn = "is_quadruple_double"
    /\ ret = Pending
    /\ ret' = Counted(call.args[1],
                      is_quadruple_double(call.args[1], getk(call.args[2], 10)))
    /\ UNCHANGED <<results, games, gi, pc, returned, call>>

InitDoubles ==
    /\ EngineIdle
    /\ call \in DoubleCalls
    /\ ret = Pending

NextDoubles ==
    \/ IsDoubleDouble
    \/ IsTripleDouble
    \/ IsQuadrupleDouble

SpecDoubles == InitDoubles /\ [][NextDoubles]_vars

\* the value argument of a direct safe_int call: None, integers, finite and
\* non-finite floats, strings that parse and strings that do not, a list
SafeIntValues ==
    { None, I(0), I(42), I(-7),
      F(427, 10), F(-37, 10), F(-1, 2), F(12, 1), Inf, NegInf, NaN,
      S("42"), S("42.0"), S("12.0"), S(" 12 "), S("-3.7"), S("+25"),
      S(".5"), S("7."), S("not a number"), S(""), S("1.2.3"), S("12abc"),
      S("nan"), S("inf"), S("-Infinity"), Other }

\* the default argument: left out (0), or given
SafeIntDefaults == { Absent(0), Some(99), Some(-1) }

SafeIntCalls ==
    { Call("safe_int", << v, d >>) : v \in SafeIntValues, d \in SafeIntDefaults }

\* safe_int(value[, default])
SafeInt ==
    /\ call.fn = "safe_int"
    /\ ret = Pending
    /\ ret' = IF safe_int_raises(call.args[1]) THEN Raised
              ELSE I(safe_int(call.args[1], getk(call.args[2], 0)))
    /\ UNCHANGED <<results, games, gi, pc, returned, call>>

InitSafeInt ==
    /\ EngineIdle
    /\ call \in SafeIntCalls
    /\ ret = Pending

NextSafeInt == SafeInt

SpecSafeInt == InitSafeInt /\ [][NextSafeInt]_vars

\* the twelve keys calculate_game_score reads
GameScoreFields ==
    { "pts", "fg", "fga", "ft", "fta", "orb", "drb", "stl", "ast", "blk",
      "pf", "tov" }

\* a stats dict with the twelve keys, given in the order of the formula
Stats12(pts, fg, fga, ft, fta, orb, drb, stl, ast, blk, pf, tov) ==
    [ pts |-> I(pts), fg |-> I(fg), fga |-> I(fga), ft |-> I(ft),
      fta |-> I(fta), orb |-> I(orb), drb |-> I(drb), stl |-> I(stl),
      ast |-> I(ast), blk |-> I(blk), pf |-> I(pf), tov |-> I(tov) ]

\* stats dicts for calculate_game_score: each key absent or 1 (the empty
\* dict among them), each key 0 or 2, and four full lines
GameScoreStats ==
    { [f \in GameScoreFields |-> IF f \in on THEN I(1) ELSE Missing] :
        on \in SUBSET GameScoreFields }
    \cup { [f \in GameScoreFields |-> IF f \in on THEN I(2) ELSE I(0)] :
             on \in SUBSET GameScoreFields }
    \cup { Stats12(25, 9, 18, 4, 5, 2, 6, 2, 5, 1, 2, 3),
           Stats12(40, 15, 25, 8, 10, 3, 8, 3, 10, 2, 2, 2),
           Stats12(15, 6, 12, 2, 3, 1, 3, 1, 3, 0, 2, 2),
           Stats12(4, 2, 10, 0, 2, 0, 1, 0, 1, 0, 4, 5) }

GameScoreCalls ==
    { Call("calculate_game_score", << st >>) : st \in GameScoreStats }

\* calculate_game_score(stats): the float, a whole number of tenths
CalculateGameScore ==
    /\ call.fn = "calculate_game_score"
    /\ ret = Pending
    /\ ret' = F(calculate_game_score(call.args[1]), 10)
    /\ UNCHANGED <<results, games, gi, pc, returned, call>>

InitGameScore ==
    /\ EngineIdle
    /\ call \in GameScoreCalls
    /\ ret = Pending

NextGameScore == CalculateGameScore

SpecGameScore == InitGameScore /\ [][NextGameScore]_vars

-----------------------------------------------------------------------------
(* Vocabulary of the properties *)

Sides == { "away", "home" }

\* the roster of side sd of the g-th game of the batch
RosterOf(g, sd) ==
    get_players_for_side(getk(games[g].box_score,
        [away |-> Absent([players |-> Absent(<< >>), basic |-> Absent(<< >>)]),
         home |-> Absent([players |-> Absent(<< >>), basic |-> Absent(<< >>)])]),
        sd)

\* the player-games processed so far in the current run: <<game, side, index>>
Processed ==
    { pg \in (1..(gi - 1)) \X Sides \X (1..MaxRoster) :
        pg[1] <= Len(games) /\ pg[3] <= Len(RosterOf(pg[1], pg[2])) }

PlayerOf(pg) == RosterOf(pg[1], pg[2])[pg[3]]

\* the canonical value of an integer field: the integer, 0 when absent or None
V(p, f) == IF p[f].k = "int" THEN p[f].v ELSE 0

\* number of entries of category c that belong to player-game pg
N(c, pg) ==
    Cardinality({ k \in 1..Len(results[c]) :
        /\ results[c][k].game_id = getk(games[pg[1]].game_id, "")
        /\ results[c][k].side = pg[2]
        /\ results[c][k].player_id = PlayerOf(pg).player_id })

\* how many of the five base categories of p are at least n
AtLeast(p, n) ==
    Cardinality({ f \in {"pts", "trb", "ast", "stl", "blk"} : V(p, f) >= n })

-----------------------------------------------------------------------------
(* C1: a player-game with at least 4 of pts, trb, ast, stl, blk at 10 or   *)
(* more has exactly one entry in each of quadruple_doubles, triple_doubles *)
(* and double_doubles; a quadruple_doubles entry implies a triple_doubles  *)
(* entry, which implies a double_doubles entry, for the same player-game.  *)
C1_Nesting ==
    \A pg \in Processed :
        /\ AtLeast(PlayerOf(pg), 10) >= 4 =>
               /\ N("quadruple_doubles", pg) = 1
               /\ N("triple_doubles", pg) = 1
               /\ N("double_doubles", pg) = 1
        /\ N("quadruple_doubles", pg) >= 1 => N("triple_doubles", pg) >= 1
        /\ N("triple_doubles", pg) >= 1 => N("double_doubles", pg) >= 1

C1_Witness ==
    \E pg \in Processed :
        /\ AtLeast(PlayerOf(pg), 10) = 4
        /\ N("quadruple_doubles", pg) = 1
        /\ N("triple_doubles", pg) = 1
        /\ N("double_doubles", pg) = 1

-----------------------------------------------------------------------------
(* Ladder tables as the specification lists them: <<threshold, category>>  *)

ScoringTable ==
    { <<70, "seventy_point_games">>, <<60, "sixty_point_games">>,
      <<50, "fifty_point_games">>, <<45, "forty_five_point_games">>,
      <<40, "forty_point_games">>, <<35, "thirty_five_point_games">>,
      <<30, "thirty_point_games">>, <<25, "twenty_five_point_games">>,
      <<20, "twenty_point_games">> }

ReboundTable ==
    { <<25, "twenty_five_rebound_games">>, <<20, "twenty_rebound_games">>,
      <<18, "eighteen_rebound_games">>, <<15, "fifteen_rebound_games">>,
      <<12, "twelve_rebound_games">>, <<10, "ten_rebound_games">> }

AssistTable ==
    { <<20, "twenty_assist_games">>, <<15, "fifteen_assist_games">>,
      <<12, "twelve_assist_games">>, <<10, "ten_assist_games">> }

StealTable ==
    { <<10, "ten_steal_games">>, <<7, "seven_steal_games">>,
      <<5, "five_steal_games">>, <<4, "four_steal_games">> }

BlockTable ==
    { <<10, "ten_block_games">>, <<7, "seven_block_games">>,
      <<5, "five_block_games">>, <<4, "four_block_games">> }

ThreeTable ==
    { <<10, "ten_three_games">>, <<8, "eight_three_games">>,
      <<7, "seven_three_games">>, <<6, "six_three_games">>,
      <<5, "five_three_games">> }

\* the rows of the highest threshold that is <= x (none when x is below all)
Highest(table, x) ==
    { row \in table :
        /\ row[1] <= x
        /\ \A other \in table : other[1] <= x => other[1] <= row[1] }

\* player-game pg has one entry in the category of the highest threshold
\* met by field f, and none in the other categories of the table
LadderOK(table, f, pg) ==
    \A row \in table :
        N(row[2], pg) = IF row \in Highest(table, V(PlayerOf(pg), f)) THEN 1 ELSE 0

\* 1 when the condition holds, 0 otherwise
B(cond) == IF cond THEN 1 ELSE 0

(* C2: at most one of the nine scoring categories receives an entry for a  *)
(* player-game: the category of the highest threshold <= pts, and none     *)
(* when pts < 20.                                                          *)
C2_ScoringLadder ==
    \A pg \in Processed :
        /\ LadderOK(ScoringTable, "pts", pg)
        /\ V(PlayerOf(pg), "pts") < 20 =>
               \A row \in ScoringTable : N(row[2], pg) = 0

C2_Witness ==
    \E pg \in Processed :
        /\ V(PlayerOf(pg), "pts") = 45
        /\ N("forty_five_point_games", pg) = 1
        /\ \A row \in ScoringTable :
               row[2] # "forty_five_point_games" => N(row[2], pg) = 0

(* C3: each of the rebounding, assists, steals, blocks and three-pointer   *)
(* ladders gives a player-game at most one entry, in the category of the   *)
(* highest threshold met, none below the lowest threshold; and             *)
(* perfect_from_three fires iff fg3a >= 4 and fg3 == fg3a, whatever the    *)
(* fg3 ladder does.                                                        *)
C3_StatLadders ==
    \A pg \in Processed :
        /\ LadderOK(ReboundTable, "trb", pg)
        /\ LadderOK(AssistTable, "ast", pg)
        /\ LadderOK(StealTable, "stl", pg)
        /\ LadderOK(BlockTable, "blk", pg)
        /\ LadderOK(ThreeTable, "fg3", pg)
        /\ N("perfect_from_three", pg) =
               B(V(PlayerOf(pg), "fg3a") >= 4
                 /\ V(PlayerOf(pg), "fg3") = V(PlayerOf(pg), "fg3a"))

C3_Witness ==
    \E pg \in Processed :
        /\ V(PlayerOf(pg), "fg3") = 8
        /\ N("eight_three_games", pg) = 1
        /\ N("five_three_games", pg) = 0
        /\ N("perfect_from_three", pg) = 1

(* C4: near_triple_doubles gets an entry iff exactly 2 of the five base    *)
(* categories are >= 10 and at least 1 is 8 or 9; near_double_doubles iff  *)
(* exactly 1 is >= 10 and at least 1 is 8 or 9; so no player-game is in    *)
(* both near_triple_doubles and triple_doubles, nor in both                *)
(* near_double_doubles and double_doubles.                                 *)
C4_NearGuards ==
    \A pg \in Processed :
        LET p    == PlayerOf(pg)
            ten  == AtLeast(p, 10)
            near == AtLeast(p, 8) - AtLeast(p, 10)
        IN  /\ N("near_triple_doubles", pg) = B(ten = 2 /\ near >= 1)
            /\ N("near_double_doubles", pg) = B(ten = 1 /\ near >= 1)
            /\ ~(N("near_triple_doubles", pg) >= 1 /\ N("triple_doubles", pg) >= 1)
            /\ ~(N("near_double_doubles", pg) >= 1 /\ N("double_doubles", pg) >= 1)

\* three categories at 10 and one at 8: a triple-double, and not a near one
C4_Witness ==
    \E pg \in Processed :
        /\ AtLeast(PlayerOf(pg), 10) = 3
        /\ AtLeast(PlayerOf(pg), 8) >= 4
        /\ N("triple_doubles", pg) = 1
        /\ N("near_triple_doubles", pg) = 0

(* C5: at most one of thirty_ten_games, twenty_five_ten_games and          *)
(* twenty_ten_games gets an entry, the first match of pts >= 30, 25, 20    *)
(* with (trb >= 10 or ast >= 10); independently twenty_ten_five_games iff  *)
(* pts >= 20, trb >= 10, ast >= 5; twenty_twenty_games iff pts >= 20 and   *)
(* trb >= 20; points_assists_double_double iff pts >= 10, ast >= 10 and    *)
(* trb < 10.                                                               *)
C5_Combined ==
    \A pg \in Processed :
        LET pts == V(PlayerOf(pg), "pts")
            trb == V(PlayerOf(pg), "trb")
            ast == V(PlayerOf(pg), "ast")
            ten == trb >= 10 \/ ast >= 10
        IN  /\ N("thirty_ten_games", pg) = B(pts >= 30 /\ ten)
            /\ N("twenty_five_ten_games", pg) = B(pts >= 25 /\ pts < 30 /\ ten)
            /\ N("twenty_ten_games", pg) = B(pts >= 20 /\ pts < 25 /\ ten)
            /\ N("thirty_ten_games", pg) + N("twenty_five_ten_games", pg)
                   + N("twenty_ten_games", pg) <= 1
            /\ N("twenty_ten_five_games", pg) = B(pts >= 20 /\ trb >= 10 /\ ast >= 5)
            /\ N("twenty_twenty_games", pg) = B(pts >= 20 /\ trb >= 20)
            /\ N("points_assists_double_double", pg) =
                   B(pts >= 10 /\ ast >= 10 /\ trb < 10)

\* a ladder tier won by rebounds alone, together with two independent flags
C5_Witness ==
    \E pg \in Processed :
        /\ V(PlayerOf(pg), "ast") < 10
        /\ N("thirty_ten_games", pg) = 1
        /\ N("twenty_ten_five_games", pg) = 1
        /\ N("twenty_twenty_games", pg) = 1

(* C6: plus_25_games gets an entry iff plus_minus >= 25, plus_20_games iff *)
(* 20 <= plus_minus < 25 (never both), minus_25_games iff plus_minus <= -25.*)
C6_PlusMinus ==
    \A pg \in Processed :
        LET pm == V(PlayerOf(pg), "plus_minus")
        IN  /\ N("plus_25_games", pg) = B(pm >= 25)
            /\ N("plus_20_games", pg) = B(pm >= 20 /\ pm < 25)
            /\ N("plus_25_games", pg) + N("plus_20_games", pg) <= 1
            /\ N("minus_25_games", pg) = B(pm <= -25)

C6_Witness ==
    \E pg \in Processed :
        /\ V(PlayerOf(pg), "plus_minus") >= 25
        /\ N("plus_25_games", pg) = 1
        /\ N("plus_20_games", pg) = 0

\* the five efficiency categories
EfficiencyCats ==
    { "hot_shooting_games", "perfect_ft_games", "perfect_fg_games",
      "efficient_scoring_games", "high_game_score" }

\* the categories among cats in which player-game pg has an entry
Fired(cats, pg) == { c \in cats : N(c, pg) >= 1 }

\* the player mapping pts=26, fg=10, fga=10, ft=6, fta=6 and nothing else
IsC7Line(p) ==
    /\ V(p, "pts") = 26 /\ V(p, "fg") = 10 /\ V(p, "fga") = 10
    /\ V(p, "ft") = 6 /\ V(p, "fta") = 6
    /\ \A f \in {"trb", "ast", "stl", "blk", "tov", "orb", "drb", "pf"} : V(p, f) = 0

(* C7 as stated: fg=10, fga=10, ft=6, fta=6, pts=26 yields three           *)
(* efficiency entries: one in perfect_fg_games, one in perfect_ft_games    *)
(* and one in efficient_scoring_games.                                     *)
C7_ThreeEntries ==
    \A pg \in Processed :
        IsC7Line(PlayerOf(pg)) =>
            /\ N("perfect_fg_games", pg) = 1
            /\ N("perfect_ft_games", pg) = 1
            /\ N("efficient_scoring_games", pg) = 1
            /\ Cardinality(Fired(EfficiencyCats, pg)) = 3

(* C7 amended: fg=10, fga=10, ft=6, fta=6, pts=26 yields four efficiency   *)
(* entries, one in each of hot_shooting_games, perfect_fg_games,           *)
(* perfect_ft_games and efficient_scoring_games (and none in               *)
(* high_game_score): no efficiency check suppresses another.               *)
C7_FourEntries ==
    \A pg \in Processed :
        IsC7Line(PlayerOf(pg)) =>
            /\ N("hot_shooting_games", pg) = 1
            /\ N("perfect_fg_games", pg) = 1
            /\ N("perfect_ft_games", pg) = 1
            /\ N("efficient_scoring_games", pg) = 1
            /\ N("high_game_score", pg) = 0

C7_Witness ==
    \E pg \in Processed :
        /\ IsC7Line(PlayerOf(pg))
        /\ Fired(EfficiencyCats, pg) =
               { "hot_shooting_games", "perfect_ft_games", "perfect_fg_games",
                 "efficient_scoring_games" }

(* C8: efficient_scoring_games gets an entry iff pts >= 15, the            *)
(* denominator 2*(fga + 0.44*fta) is non-zero and the exact value          *)
(* pts / (2*(fga + 0.44*fta)) is >= 0.65, i.e. 1000*pts >= 1300*fga +      *)
(* 572*fta; a value strictly below 0.65 never qualifies.                   *)
C8_ExactTrueShooting ==
    \A pg \in Processed :
        LET pts == V(PlayerOf(pg), "pts")
            fga == V(PlayerOf(pg), "fga")
            fta == V(PlayerOf(pg), "fta")
        IN  N("efficient_scoring_games", pg) =
                B(/\ pts >= 15
                  /\ 25 * fga + 11 * fta # 0
                  /\ 1000 * pts >= 1300 * fga + 572 * fta)

\* the Game Score of a player mapping, in tenths, with its orb, drb and pf
RecordGameScore(p) ==
    10 * V(p, "pts") + 4 * V(p, "fg") - 7 * V(p, "fga")
    - 4 * (V(p, "fta") - V(p, "ft")) + 7 * V(p, "orb") + 3 * V(p, "drb")
    + 10 * V(p, "stl") + 7 * V(p, "ast") + 7 * V(p, "blk") - 4 * V(p, "pf")
    - 10 * V(p, "tov")

(* C9: high_game_score gets an entry iff the Game Score of the player's    *)
(* record, pts + 0.4*fg - 0.7*fga - 0.4*(fta-ft) + 0.7*orb + 0.3*drb + stl *)
(* + 0.7*ast + 0.7*blk - 0.4*pf - tov with the record's orb, drb and pf,   *)
(* is >= 35.                                                               *)
C9_RecordGameScore ==
    \A pg \in Processed :
        N("high_game_score", pg) = B(RecordGameScore(PlayerOf(pg)) >= 350)

(* C10: to_dict() has exactly the known category keys in every state; on   *)
(* a fresh MilestoneResults and after process_games([]) every key maps to  *)
(* an empty list; otherwise each key maps to one record per stored entry,  *)
(* in stored order.                                                        *)
C10_ToDict ==
    LET d == to_dict(results)
    IN  /\ DOMAIN d = Categories
        /\ \A c \in Categories :
               /\ Len(d[c]) = Len(results[c])
               /\ \A k \in 1..Len(results[c]) :
                      /\ d[c][k].milestone_type = results[c][k].milestone_type
                      /\ d[c][k].player = results[c][k].player
                      /\ d[c][k].player_id = results[c][k].player_id
                      /\ d[c][k].team = results[c][k].team
                      /\ d[c][k].opponent = results[c][k].opponent
                      /\ d[c][k].game_id = results[c][k].game_id
                      /\ d[c][k].date = results[c][k].date
                      /\ d[c][k].date_yyyymmdd = results[c][k].date_yyyymmdd
                      /\ d[c][k].side = results[c][k].side
                      /\ d[c][k].stats = results[c][k].stats
                      /\ d[c][k].detail = results[c][k].detail
               /\ games = << >> => d[c] = << >>

\* after a run that stored two entries of different games in one category
C10_Witness ==
    /\ pc = "idle"
    /\ Len(results["triple_doubles"]) = 2
    /\ Len(to_dict(results)["triple_doubles"]) = 2
    /\ to_dict(results)["triple_doubles"][1].game_id = GameIdAt(1)
    /\ to_dict(results)["triple_doubles"][2].game_id = GameIdAt(2)
    /\ to_dict(results)["seventy_point_games"] = << >>

-----------------------------------------------------------------------------
\* the sizes of the category lists added up in declaration order
SumOfSizes(res) ==
    LET sum[i \in 0..Len(CategoryKeys)] ==
            IF i = 0 THEN 0 ELSE sum[i - 1] + Len(res[CategoryKeys[i]])
    IN  sum[Len(CategoryKeys)]

\* the values of a summary mapping added up
SumOfValues(summary) ==
    LET sum[i \in 0..Len(CategoryKeys)] ==
            IF i = 0 THEN 0
            ELSE sum[i - 1] + (IF CategoryKeys[i] \in DOMAIN summary
                               THEN summary[CategoryKeys[i]] ELSE 0)
    IN  sum[Len(CategoryKeys)]

(* C11: at every point of every sequence of process_games calls,           *)
(* get_milestone_count() is the sum of the sizes of all category lists,    *)
(* get_milestone_summary() maps every category, empty ones included, to    *)
(* the size of its list, the count equals the sum of the summary's values, *)
(* and after process_games([]) the count is 0.                             *)
C11_CountAndSummary ==
    LET summary == get_milestone_summary(results)
    IN  /\ get_milestone_count(results) = SumOfSizes(results)
        /\ DOMAIN summary = Categories
        /\ \A c \in Categories : summary[c] = Len(results[c])
        /\ get_milestone_count(results) = SumOfValues(summary)
        /\ (pc = "idle" /\ games = << >>) => get_milestone_count(results) = 0

\* after a two-game run: several non-empty lists next to empty ones
C11_Witness ==
    /\ pc = "idle"
    /\ Len(games) = 2
    /\ get_milestone_summary(results)["triple_doubles"] = 2
    /\ get_milestone_summary(results)["forty_five_point_games"] = 1
    /\ get_milestone_summary(results)["seventy_point_games"] = 0
    /\ get_milestone_count(results) > 3

-----------------------------------------------------------------------------
\* the names asked for: full names in several casings, and partial names
QueryNames ==
    { "LEBRON JAMES", "lebron james", "LeBron", "Stephen Curry", "Curry" }

\* the same name up to the case of its letters, told character by character
SameIgnoringCase(a, b) ==
    /\ Len(a) = Len(b)
    /\ \A i \in 1..Len(a) :
           \/ SubSeq(a, i, i) = SubSeq(b, i, i)
           \/ \E j \in 1..Len(UpperCase) :
                  { SubSeq(a, i, i), SubSeq(b, i, i) } =
                  { SubSeq(UpperCase, j, j), SubSeq(LowerCase, j, j) }

\* the places <<category, position>> of the stored entries of player q
StoredFor(q) ==
    { ck \in Categories \X (1..(MaxGames * 2 * MaxRoster)) :
        /\ ck[2] <= Len(results[ck[1]])
        /\ SameIgnoringCase(results[ck[1]][ck[2]].player, q) }

\* the position of a category in the order the queries enumerate them
EnumPos ==
    [ c \in Categories |-> CHOOSE i \in 1..Len(dir_results) : dir_results[i] = c ]

\* place a comes before place b: an earlier category, or the same category
\* and an earlier position in its list
Before(a, b) ==
    \/ EnumPos[a[1]] < EnumPos[b[1]]
    \/ a[1] = b[1] /\ a[2] < b[2]

\* the 1-based rank of place ck among the given places
Rank(ck, places) == 1 + Cardinality({ x \in places : Before(x, ck) })

(* C12: get_player_milestones(name) returns exactly the stored entries     *)
(* whose full player name equals name ignoring case, each exactly once,    *)
(* ordered by category in the enumeration order of the categories and,     *)
(* within a category, in stored order; a partial name matches nothing.     *)
C12_PlayerMilestones ==
    \A q \in QueryNames :
        LET out    == get_player_milestones(results, q)
            stored == StoredFor(q)
        IN  /\ Len(out) = Cardinality(stored)
            /\ \A ck \in stored : out[Rank(ck, stored)] = results[ck[1]][ck[2]]
            /\ q \in { "LeBron", "Curry" } => out = << >>

\* "LEBRON JAMES" finds the entries of "LeBron James", and an entry of the
\* second game comes before an entry of the first game
C12_Witness ==
    LET out == get_player_milestones(results, "LEBRON JAMES")
    IN  /\ pc = "idle"
        /\ Len(out) > 2
        /\ \A i \in 1..Len(out) : out[i].player = "LeBron James"
        /\ \E k \in 1..Len(results["forty_five_point_games"]) :
               results["forty_five_point_games"][k].player = "Stephen Curry"
        /\ \E i, j \in 1..Len(out) :
               /\ i < j
               /\ out[i].game_id = GameIdAt(2)
               /\ out[j].game_id = GameIdAt(1)

-----------------------------------------------------------------------------
\* where a stored entry comes from: <<game position, side (away 0, home 1),
\* roster position>>, found through its game_id, side and player_id
Origin(e) ==
    LET g == CHOOSE k \in 1..Len(games) : getk(games[k].game_id, "") = e.game_id
        i == CHOOSE k \in 1..Len(RosterOf(g, e.side)) :
                 RosterOf(g, e.side)[k].player_id = e.player_id
    IN  << g, IF e.side = "away" THEN 0 ELSE 1, i >>

\* origin a is strictly before origin b in processing order
Precedes(a, b) ==
    \/ a[1] < b[1]
    \/ a[1] = b[1] /\ a[2] < b[2]
    \/ a[1] = b[1] /\ a[2] = b[2] /\ a[3] < b[3]

(* C13: within every category list the entries appear in the order         *)
(* G1-away roster order, G1-home roster order, G2-away roster order, ...:  *)
(* games in input order, away before home within a game, players in roster *)
(* order within a side, with no re-sorting.                                *)
C13_Ordering ==
    \A c \in Categories :
        \A i, j \in 1..Len(results[c]) :
            i < j => Precedes(Origin(results[c][i]), Origin(results[c][j]))

\* two games, both players on both sides of each, the two rosters of a
\* game in opposite orders: one list holds all eight player-games in order
C13_Witness ==
    LET z == results["zero_turnover_games"]
    IN  /\ pc = "idle"
        /\ Len(z) = 8
        /\ [k \in 1..8 |-> z[k].game_id] =
               << GameIdAt(1), GameIdAt(1), GameIdAt(1), GameIdAt(1),
                  GameIdAt(2), GameIdAt(2), GameIdAt(2), GameIdAt(2) >>
        /\ [k \in 1..8 |-> z[k].side] =
               << "away", "away", "home", "home",
                  "away", "away", "home", "home" >>
        /\ [k \in 1..8 |-> z[k].player_id] =
               << "curryst01", "jamesle01", "jamesle01", "curryst01",
                  "jamesle01", "curryst01", "curryst01", "jamesle01" >>

-----------------------------------------------------------------------------
\* the roster the rule of C14 names for side sd of the g-th game, read off
\* the game mapping key by key
ResolvedRoster(g, sd) ==
    IF ~games[g].box_score.has THEN << >>
    ELSE IF ~games[g].box_score.val[sd].has THEN << >>
    ELSE LET side_data == games[g].box_score.val[sd].val
         IN  IF side_data.players.has /\ side_data.players.val # << >>
             THEN side_data.players.val
             ELSE IF side_data.basic.has THEN side_data.basic.val
             ELSE << >>

\* the player ids of the stored entries of side sd of the g-th game
StoredIds(g, sd) ==
    UNION { { results[c][k].player_id : k \in
                { n \in 1..Len(results[c]) :
                    /\ results[c][n].game_id = getk(games[g].game_id, "")
                    /\ results[c][n].side = sd } } : c \in Categories }

(* C14: the roster processed for a side is the list under `players` when   *)
(* that key is present and non-empty (a `basic` list is then ignored),     *)
(* otherwise the list under `basic`; when both are absent, or the side or  *)
(* the box_score is absent, the side contributes no entry and no error.    *)
C14_RosterResolution ==
    /\ pc # "raised"
    /\ \A g \in 1..(gi - 1) : \A sd \in Sides :
           /\ g <= Len(games)
           /\ StoredIds(g, sd) =
                  { ResolvedRoster(g, sd)[i].player_id :
                        i \in 1..Len(ResolvedRoster(g, sd)) }

\* away: an empty `players` list next to a `basic` list; home: both lists
C14_Witness ==
    /\ pc = "idle"
    /\ games[1].box_score.has
    /\ games[1].box_score.val["away"].has
    /\ games[1].box_score.val["away"].val.players = Some(<< >>)
    /\ games[1].box_score.val["away"].val.basic.has
    /\ games[1].box_score.val["home"].has
    /\ games[1].box_score.val["home"].val.players.has
    /\ games[1].box_score.val["home"].val.basic.has
    /\ Len(games[1].box_score.val["home"].val.players.val) = 1
    /\ Len(games[1].box_score.val["home"].val.basic.val) = 1
    /\ games[1].game_id = Some(GameIdAt(1))
    /\ StoredIds(1, "away") = { "curryst01" }
    /\ StoredIds(1, "home") = { "jamesle01" }

-----------------------------------------------------------------------------
\* the store one run over gs alone builds, starting from an empty store
RunOf(gs) ==
    LET run[i \in 0..Len(gs)] ==
            IF i = 0 THEN MilestoneResults
            ELSE process_game(run[i - 1], gs[i]).res
    IN  run[Len(gs)]

(* C15: the MilestoneResults a call returned holds exactly the entries of  *)
(* that call's games, whatever calls came before and whatever a later call *)
(* is doing; the running call's store holds exactly the entries of the     *)
(* games it has processed; and once a call has returned, the engine's      *)
(* store, summary and player queries are those of that call alone.         *)
C15_FreshStore ==
    /\ returned.has => returned.val.res = RunOf(returned.val.games)
    /\ pc = "running" => results = RunOf(SubSeq(games, 1, gi - 1))
    /\ (pc = "idle" /\ returned.has) =>
           /\ returned.val = [games |-> games, res |-> results]
           /\ results = RunOf(games)
           /\ get_milestone_summary(results) = get_milestone_summary(RunOf(games))
           /\ \A q \in { "LeBron James", "Stephen Curry" } :
                  get_player_milestones(results, q) =
                  get_player_milestones(RunOf(games), q)

\* a second call has processed its only game while the caller still holds
\* what a first call over two games returned
C15_Witness ==
    /\ pc = "running"
    /\ returned.has
    /\ Len(returned.val.games) = 2
    /\ Len(games) = 1
    /\ gi = 2
    /\ Len(returned.val.res["triple_doubles"]) = 2
    /\ Len(results["triple_doubles"]) = 1
    /\ Len(returned.val.res["forty_five_point_games"]) = 2
    /\ Len(results["forty_five_point_games"]) = 0

-----------------------------------------------------------------------------
\* the player of the one-player batch
ThePlayer == RosterOf(1, "away")[1]

\* the cell is missing, None, an integer, a float or a string
IsClaimedKind(x) ==
    x.k \in { "missing", "none", "int", "float", "inf", "nan", "str" }

(* C16: for every player record in which each recognised field is missing, *)
(* None, an integer, a float, a numeric string, an "MM:SS" string or an    *)
(* unparsable string, normalizing and classifying the record completes     *)
(* without raising.                                                        *)
C16_NeverRaises ==
    (\A f \in IntFields \cup { "mp" } : IsClaimedKind(ThePlayer[f]))
        => pc # "raised"

\* the cell is missing, None, or a string that float() rejects
Unreadable(x) ==
    \/ x.k \in { "missing", "none" }
    \/ x.k = "str" /\ py_float(x.v).k = "ValueError"

\* the cell is unreadable, an integer, a finite float or a numeric string
IsPlainCell(x) ==
    \/ Unreadable(x)
    \/ x.k \in { "int", "float" }
    \/ x.k = "str" /\ py_float(x.v).k = "float"

(* C17: a numeric field that is missing, None or unparsable is read as 0   *)
(* and earns no entry in a category whose rule reads it -- an unreadable   *)
(* tov earns no zero_turnover_games entry, an unreadable trb no            *)
(* points_assists_double_double entry -- and the batch is not failed.      *)
C17_MissingNeverQualifies ==
    /\ (\A f \in IntFields : IsPlainCell(ThePlayer[f]))
       /\ (Unreadable(ThePlayer.mp) \/ ThePlayer.mp.k \in { "int", "float" })
           => pc # "raised"
    /\ \A pg \in Processed :
           /\ Unreadable(PlayerOf(pg).tov) => N("zero_turnover_games", pg) = 0
           /\ Unreadable(PlayerOf(pg).trb) =>
                  N("points_assists_double_double", pg) = 0

-----------------------------------------------------------------------------
\* the g-th game lacks box_score, basic_info, a side, or both roster keys
\* of a side
Malformed(g) ==
    \/ ~games[g].box_score.has
    \/ ~games[g].basic_info.has
    \/ \E sd \in Sides :
           \/ ~games[g].box_score.val[sd].has
           \/ /\ ~games[g].box_score.val[sd].val.players.has
              /\ ~games[g].box_score.val[sd].val.basic.has

\* the entries of the g-th game in list c, in stored order
EntriesOf(c, g) ==
    SelectSeq(results[c], LAMBDA e : e.game_id = getk(games[g].game_id, ""))

\* the store that the first n games add up to when each game that is kept
\* is processed on its own and the lists are joined in input order
OnTheirOwn(n, keep(_)) ==
    LET acc[g \in 0..n] ==
            IF g = 0 THEN MilestoneResults
            ELSE IF keep(g)
                 THEN LET own == RunOf(<< games[g] >>)
                      IN  [c \in Categories |-> acc[g - 1][c] \o own[c]]
                 ELSE acc[g - 1]
    IN  acc[n]

(* C18 as stated: a game that lacks box_score, basic_info, a side or roster *)
(* keys never aborts the run and contributes zero entries, and the result  *)
(* holds exactly the entries the remaining games produce on their own, in  *)
(* order.                                                                  *)
C18_ZeroForMalformed ==
    /\ pc # "raised"
    /\ \A g \in 1..(gi - 1) : \A c \in Categories :
           Malformed(g) => EntriesOf(c, g) = << >>
    /\ results = OnTheirOwn(gi - 1, LAMBDA g : ~Malformed(g))

(* C18 amended: such a game never aborts the run; it contributes the       *)
(* entries of the rosters it still has -- none for an absent box_score, an *)
(* absent side or a side without roster keys -- with empty team, opponent  *)
(* and date when basic_info is absent; and the result holds, game after    *)
(* game in input order, exactly what each game produces on its own.        *)
C18_MalformedGames ==
    /\ pc # "raised"
    /\ \A g \in 1..(gi - 1) : \A sd \in Sides :
           StoredIds(g, sd) =
               { ResolvedRoster(g, sd)[i].player_id :
                     i \in 1..Len(ResolvedRoster(g, sd)) }
    /\ \A g \in 1..(gi - 1) : \A c \in Categories :
           \A k \in 1..Len(results[c]) :
               /\ ~games[g].basic_info.has
               /\ results[c][k].game_id = getk(games[g].game_id, "")
               => /\ results[c][k].team = ""
                  /\ results[c][k].opponent = ""
                  /\ results[c][k].date = ""
    /\ results = OnTheirOwn(gi - 1, LAMBDA g : TRUE)

\* a game without basic_info, then a complete game: both have left their
\* entries, the first with empty team names
C18_Witness ==
    /\ pc = "idle"
    /\ Len(games) = 2
    /\ ~games[1].basic_info.has
    /\ games[1].box_score.has
    /\ ~Malformed(2)
    /\ Len(results["triple_doubles"]) = 2
    /\ results["triple_doubles"][1].game_id = GameIdAt(1)
    /\ results["triple_doubles"][1].team = ""
    /\ results["triple_doubles"][2].game_id = GameIdAt(2)
    /\ results["triple_doubles"][2].team = "Boston Celtics"
    /\ Len(results["forty_five_point_games"]) = 2

-----------------------------------------------------------------------------
(* C19: date_yyyymmdd defaulting *)

\* values a caller can pass as date_yyyymmdd: the empty string, a date, and
\* strings that are not the first 8 characters of any game id
ExplicitDates == { "", "20231225", "2024", "20240115" }

\* game_id[:8] when the id has at least 8 characters, else ""
DerivedDate(game_id) ==
    IF Len(game_id) >= 8 THEN SubSeq(game_id, 1, 8) ELSE ""

\* every stored entry, in any category
StoredEntries ==
    UNION { { results[c][k] : k \in 1..Len(results[c]) } : c \in Categories }

\* C19 as stated: an entry built without date_yyyymmdd gets game_id[:8] when
\* the id has at least 8 characters and "" otherwise; ANY explicitly supplied
\* date_yyyymmdd is kept; every entry of process_games carries the derived
\* date.  Violated: an explicitly supplied "" is replaced by game_id[:8].
C19_ExplicitAlwaysKept ==
    \A e \in StoredEntries :
        /\ e.date_yyyymmdd = DerivedDate(e.game_id)
        /\ post_init("", e.game_id) = DerivedDate(e.game_id)
        /\ \A d \in ExplicitDates : post_init(d, e.game_id) = d

\* C19 (amended): an entry built without date_yyyymmdd, or with an empty one,
\* gets game_id[:8] when the id has at least 8 characters and "" otherwise
\* ("202401150LAL" gives "20240115"); a non-empty explicitly supplied
\* date_yyyymmdd is kept unchanged; every entry produced by process_games
\* carries game_id[:8] when the game's id has at least 8 characters, else "".
C19_DateDefault ==
    /\ post_init("", "202401150LAL") = "20240115"
    /\ \A e \in StoredEntries :
        /\ e.date_yyyymmdd = DerivedDate(e.game_id)
        /\ \A d \in ExplicitDates :
              post_init(d, e.game_id) =
                  IF d # "" THEN d ELSE DerivedDate(e.game_id)

\* a finished call whose game id has exactly 8 characters: the entries carry
\* the whole id as date
C19_Witness ==
    /\ pc = "idle"
    /\ returned.has
    /\ StoredEntries # {}
    /\ \A e \in StoredEntries :
          e.game_id = "20240115" /\ e.date_yyyymmdd = "20240115"

-----------------------------------------------------------------------------
(* C20: milestone_type and the category key *)

\* the three lists whose entries carry the list's own name as milestone_type
SameNamed ==
    { "perfect_from_three", "high_game_score", "points_assists_double_double" }

\* the key without its final "s" (every other key ends in "s")
Singular(key) ==
    IF key \in SameNamed THEN key ELSE SubSeq(key, 1, Len(key) - 1)

\* SingularOf[key]: the singular of every category key
SingularOf == [key \in Categories |-> Singular(key)]

\* every key outside SameNamed ends in "s", and no two keys share a singular
SingularIsOneToOne ==
    /\ \A key \in Categories \ SameNamed :
          SubSeq(key, Len(key), Len(key)) = "s"
    /\ \A a, b \in Categories : SingularOf[a] = SingularOf[b] => a = b

\* C20 as stated: every stored entry's milestone_type is the category key of
\* the list that holds it, the key to_dict() and get_milestone_summary() use.
\* Violated: a triple-double is stored under "triple_doubles" with
\* milestone_type "triple_double".
C20_TypeIsKey ==
    LET d == to_dict(results)
    IN  \A key \in DOMAIN d : \A k \in 1..Len(d[key]) :
            /\ d[key][k].milestone_type = key
            /\ results[key][k].milestone_type = key
            /\ key \in DOMAIN get_milestone_summary(results)

\* C20 (amended): every stored entry's milestone_type is the singular of the
\* category key of its list: the key without its final "s", and the key itself
\* for perfect_from_three, high_game_score and points_assists_double_double.
\* The mapping is one-to-one, so the type names the list, and to_dict() hands
\* the type out unchanged under the list's key.
C20_TypeIsSingularKey ==
    LET d == to_dict(results)
    IN  /\ SingularIsOneToOne
        /\ DOMAIN d = Categories
        /\ \A key \in Categories : \A k \in 1..Len(results[key]) :
              /\ results[key][k].milestone_type = SingularOf[key]
              /\ d[key][k].milestone_type = SingularOf[key]
        /\ \A key \in DOMAIN get_milestone_summary(results) : key \in Categories

\* a classified player with an entry whose type is the singular of its key
\* and an entry whose type is the key itself
C20_Witness ==
    /\ pc = "idle"
    /\ Len(results["triple_doubles"]) = 1
    /\ results["triple_doubles"][1].milestone_type = "triple_double"
    /\ Len(results["high_game_score"]) = 1
    /\ results["high_game_score"][1].milestone_type = "high_game_score"

-----------------------------------------------------------------------------
(* C21: the double / triple / quadruple-double predicates *)

\* how many of the five categories a predicate needs at the threshold
Needed(fn) ==
    CASE fn = "is_double_double"    -> 2
      [] fn = "is_triple_double"    -> 3
      [] fn = "is_quadruple_double" -> 4

\* how many of the five categories of stats are, coerced, at least t
AtThreshold(stats, t) ==
    Cardinality({ c \in { "pts", "trb", "ast", "stl", "blk" } :
                    safe_int(get(stats, c, I(0)), 0) >= t })

\* C21: for every stats dict and threshold t (default 10), the predicate
\* returns True iff at least 2 / 3 / 4 of pts, trb, ast, stl, blk, coerced
\* with safe_int, are >= t.  Violated: with a category that holds
\* float('inf'), float('nan') or "inf" the call raises instead of answering.
C21_CountAtLeast ==
    ret # Pending =>
        ret = Bool(AtThreshold(call.args[1], getk(call.args[2], 10))
                       >= Needed(call.fn))

\* the same for the calls that return
C21_CountWhenReturned ==
    ret.k = "bool" =>
        ret = Bool(AtThreshold(call.args[1], getk(call.args[2], 10))
                       >= Needed(call.fn))

\* a call raises only when a category holds a value int() cannot convert
C21_RaisesOnlyOnInfNan ==
    ret = Raised =>
        \/ call.args[1]["pts"].k \in { "inf", "nan" }
        \/ call.args[1]["pts"] = S("inf")

-----------------------------------------------------------------------------
(* C22: safe_int *)

\* a finite float truncated toward zero
Truncated(x) == IF x.v >= 0 THEN x.v \div x.d ELSE -((-x.v) \div x.d)

\* what C22 says safe_int(value, default) returns, where it says it
Described(value, default) ==
    CASE value.k = "int"   -> I(value.v)
      [] value.k = "float" -> I(Truncated(value))
      [] value.k = "str" /\ py_float(strip(value.v)).k = "float"
                           -> I(Truncated(py_float(strip(value.v))))
      [] value.k = "str" /\ py_float(strip(value.v)).k \in { "ValueError", "nan" }
                           -> I(default)    \* "nan" has no integer value
      [] value.k \in { "none", "other" } -> I(default)
      [] OTHER -> Raised        \* infinities and NaN: no integer is described

\* C22: safe_int never raises, and returns the integer itself, the float
\* truncated toward zero, the truncated float parse of a stripped string
\* ("12.0" gives 12), and the default (0 unless supplied) for None, for an
\* unparsable string and for any other type.  Violated: float('inf'),
\* float('nan') and the strings "inf", "-Infinity" make it raise.
C22_NeverRaises ==
    ret # Pending =>
        /\ ret.k = "int"
        /\ ret = Described(call.args[1], getk(call.args[2], 0))

\* the call returns the described value unless the value is an infinity or
\* a NaN float, or a string that parses to an infinity; then it raises
C22_ValueWhenReturned ==
    ret # Pending => ret = Described(call.args[1], getk(call.args[2], 0))

-----------------------------------------------------------------------------
(* C23: zero_turnover_games and the minutes formats *)

\* the 'mp' strings of the inputs whose minutes, read as C23 describes
\* them, are at least 20: "MM:SS" is MM + SS/60, a numeric string its float
\* value; "19:59", "19.9", "-5:30", "1:2:3" fall short, and "20:xx", ":",
\* "20:", "abc", "" count as 0.0
LongEnoughStrings ==
    { "20:00", "25:30", " 25:00", "25", " 25.5 ", "inf" }

\* minutes played, as C23 describes them, are at least 20.0
MinutesQualify(mp) ==
    \/ mp.k = "int" /\ mp.v >= 20
    \/ mp.k = "float" /\ mp.v >= 20 * mp.d
    \/ mp.k = "inf" /\ mp.v > 0
    \/ mp.k = "str" /\ mp.v \in LongEnoughStrings

\* the canonical tov of the player is 0
TovIsZero(p) == Described(get(p, "tov", I(0)), 0) = I(0)

\* C23: once the player of the batch has been handled, zero_turnover_games
\* holds an entry for the player-game iff tov == 0 and the minutes played
\* are at least 20.0, minutes being the number itself for a numeric mp,
\* MM + SS/60 for an "MM:SS" string ("20:00" qualifies, "19:59" does not),
\* the parsed float for a numeric string, and 0.0 for a malformed split or
\* an unparsable string.
C23_ZeroTurnover ==
    pc \in { "idle", "raised" } =>
        /\ Len(results["zero_turnover_games"]) <= 1
        /\ Len(results["zero_turnover_games"]) = 1 <=>
               TovIsZero(ThePlayer) /\ MinutesQualify(ThePlayer.mp)

\* "20:00" with no turnover has earned its entry
C23_Witness ==
    /\ pc = "idle"
    /\ ThePlayer.mp = S("20:00")
    /\ ThePlayer.tov = I(0)
    /\ Len(results["zero_turnover_games"]) = 1
    /\ results["zero_turnover_games"][1].detail = "0 turnovers in 20 minutes"

-----------------------------------------------------------------------------
(* C24: calculate_game_score *)

\* Hollinger's formula in tenths, on the value of each key (0 when absent)
HollingerTenths(st) ==
    10 * V(st, "pts") + 4 * V(st, "fg") - 7 * V(st, "fga")
    - 4 * (V(st, "fta") - V(st, "ft")) + 7 * V(st, "orb") + 3 * V(st, "drb")
    + 10 * V(st, "stl") + 7 * V(st, "ast") + 7 * V(st, "blk")
    - 4 * V(st, "pf") - 10 * V(st, "tov")

\* C24: calculate_game_score returns pts + 0.4*fg - 0.7*fga - 0.4*(fta-ft)
\* + 0.7*orb + 0.3*drb + stl + 0.7*ast + 0.7*blk - 0.4*pf - tov, missing
\* fields being 0, rounded to one decimal; the line 25/9/18/4/5/2/6/2/5/1/2/3
\* gives 21.2 and the empty mapping 0.0.
C24_GameScore ==
    ret # Pending =>
        /\ ret = F(HollingerTenths(call.args[1]), 10)
        /\ call.args[1] = Stats12(25, 9, 18, 4, 5, 2, 6, 2, 5, 1, 2, 3)
               => ret = F(212, 10)
        /\ (\A f \in GameScoreFields : call.args[1][f] = Missing)
               => ret = F(0, 10)

\* the call on the line of the example has returned 21.2
C24_Witness ==
    /\ call.args = << Stats12(25, 9, 18, 4, 5, 2, 6, 2, 5, 1, 2, 3) >>
    /\ ret = F(212, 10)

-----------------------------------------------------------------------------
(* C25: classification independence *)

\* what the i-th player of side sd of the g-th game earns when classified
\* alone, on an empty store: a function of the player's record and of the
\* game's id, date and team names
Alone(g, sd, i) ==
    LET parts == GameParts(games[g])
        other == IF sd = "away" THEN "home" ELSE "away"
    IN  check_player_milestones(MilestoneResults, RosterOf(g, sd)[i],
                                parts.team[sd], parts.team[other],
                                parts.game_id, parts.date, sd).res

\* the lists of store a followed by the lists of store b
Joined(a, b) == [c \in Categories |-> a[c] \o b[c]]

\* what the players of side sd of the g-th game earn alone, in roster order
AloneSide(g, sd) ==
    LET acc[i \in 0..Len(RosterOf(g, sd))] ==
            IF i = 0 THEN MilestoneResults
            ELSE Joined(acc[i - 1], Alone(g, sd, i))
    IN  acc[Len(RosterOf(g, sd))]

\* what the players of the first n games earn alone, in processing order
AloneGames(n) ==
    LET acc[g \in 0..n] ==
            IF g = 0 THEN MilestoneResults
            ELSE Joined(acc[g - 1],
                        Joined(AloneSide(g, "away"), AloneSide(g, "home")))
    IN  acc[n]

\* C25: once the call has ended, the entries of each player-game, category
\* by category, are what the player's record and the game's metadata give
\* when classified alone, whatever players come before or after it in the
\* batch.  Violated: a player listed after one whose record makes the
\* classification raise has no entry at all.
C25_IndependentOfOthers ==
    pc \in { "idle", "raised" } => results = AloneGames(Len(games))

\* the same holds, state by state, in the runs in which no record raises;
\* and a run over the batch that the previous call was given ends with the
\* store that call returned
C25_Independence ==
    pc # "raised" =>
        /\ results = AloneGames(gi - 1)
        /\ (/\ pc = "running"
            /\ gi > Len(games)
            /\ returned.has
            /\ returned.val.games = games) => results = returned.val.res

(* C26: for every player-game classified, hot_shooting_games has an entry  *)
(* exactly when fga >= 10 and 5*fg >= 3*fga (fg/fga >= 0.60),              *)
(* perfect_ft_games exactly when fta >= 5 and ft = fta, perfect_fg_games   *)
(* exactly when fga >= 5 and fg = fga, and defensive_monster_games exactly *)
(* when stl + blk >= 7; each has one entry then and none otherwise, so     *)
(* attempts below the minimum never qualify, even at 100%.                 *)
C26_OwnPredicates ==
    \A pg \in Processed :
        LET p == PlayerOf(pg)
        IN  /\ N("hot_shooting_games", pg) =
                   IF V(p, "fga") >= 10 /\ 5 * V(p, "fg") >= 3 * V(p, "fga")
                   THEN 1 ELSE 0
            /\ N("perfect_ft_games", pg) =
                   IF V(p, "fta") >= 5 /\ V(p, "ft") = V(p, "fta") THEN 1 ELSE 0
            /\ N("perfect_fg_games", pg) =
                   IF V(p, "fga") >= 5 /\ V(p, "fg") = V(p, "fga") THEN 1 ELSE 0
            /\ N("defensive_monster_games", pg) =
                   IF V(p, "stl") + V(p, "blk") >= 7 THEN 1 ELSE 0

\* a 4-for-4 shooter with 4-for-4 free throws classified with no entry in
\* the three shooting categories
C26_Witness ==
    \E pg \in Processed :
        /\ V(PlayerOf(pg), "fga") = 4 /\ V(PlayerOf(pg), "fg") = 4
        /\ V(PlayerOf(pg), "fta") = 4 /\ V(PlayerOf(pg), "ft") = 4
        /\ N("hot_shooting_games", pg) = 0
        /\ N("perfect_fg_games", pg) = 0
        /\ N("perfect_ft_games", pg) = 0

\* the roster positions that the run has been through: those of the games
\* processed and, once the call has raised, those of the game it raised in
Handled ==
    Processed \cup
    { pg \in { gi } \X Sides \X (1..MaxRoster) :
        /\ pc = "raised"
        /\ gi <= Len(games)
        /\ pg[3] <= Len(RosterOf(gi, pg[2])) }

(* C27: in every state of a process_games run, every category list is at   *)
(* most as long as the number of player records the run has been through,  *)
(* and holds at most one entry of any one roster position of any one game. *)
C27_OnePerPlayerGame ==
    \A c \in Categories :
        /\ Len(results[c]) <= Cardinality(Handled)
        /\ \A pg \in Handled : N(c, pg) <= 1

\* two games of two players a side: all eight player-games are in
\* zero_turnover_games, once each, and four of them in triple_doubles
C27_Witness ==
    /\ Len(games) = 2
    /\ Cardinality(Processed) = 8
    /\ Len(results["zero_turnover_games"]) = 8
    /\ \A pg \in Processed : N("zero_turnover_games", pg) = 1
    /\ Len(results["triple_doubles"]) = 4

\* entry e is what position i of the roster of its side in game g gives:
\* the player's name and id, the extracted stats, the game's id and date,
\* the team of that side and, as opponent, the team of the other side
MadeFrom(e, g, i) ==
    LET parts == GameParts(games[g])
        p     == RosterOf(g, e.side)[i]
    IN  /\ e.game_id = parts.game_id
        /\ e.date = parts.date
        /\ e.team = parts.team[e.side]
        /\ e.opponent = parts.team[IF e.side = "away" THEN "home" ELSE "away"]
        /\ e.player_id = p.player_id
        /\ e.player = p.name
        /\ e.stats = ExtractStats(p)

(* C28: every stored entry has side 'away' or 'home' and comes from a      *)
(* player of the roster of that side of its game, with team the game's     *)
(* team of that side and opponent the team of the other side (away: team = *)
(* away_team, opponent = home_team; home: the reverse); and the entries    *)
(* of one player-game carry the same player, player_id, game_id, date and  *)
(* stats, in whatever categories they are stored.                          *)
C28_IdentityFields ==
    /\ \A e \in StoredEntries :
           /\ e.side \in Sides
           /\ \E g \in 1..Len(games) :
                  \E i \in 1..Len(RosterOf(g, e.side)) : MadeFrom(e, g, i)
    /\ \A d, e \in StoredEntries :
           (d.game_id = e.game_id /\ d.side = e.side /\ d.player_id = e.player_id)
               => /\ d.player = e.player
                  /\ d.date = e.date
                  /\ d.stats = e.stats
                  /\ d.team = e.team
                  /\ d.opponent = e.opponent

\* a game with LeBron James away and Stephen Curry home, both with entries:
\* his say Boston Celtics at Los Angeles Lakers, Curry's the reverse
C28_Witness ==
    /\ gi > 1
    /\ Len(RosterOf(1, "away")) = 1 /\ Len(RosterOf(1, "home")) = 1
    /\ RosterOf(1, "away")[1].player_id = "jamesle01"
    /\ RosterOf(1, "home")[1].player_id = "curryst01"
    /\ \E e \in StoredEntries :
           /\ e.player_id = "jamesle01" /\ e.side = "away"
           /\ e.milestone_type = "triple_double"
           /\ e.team = "Boston Celtics" /\ e.opponent = "Los Angeles Lakers"
    /\ \E e \in StoredEntries :
           /\ e.player_id = "curryst01" /\ e.side = "home"
           /\ e.milestone_type = "forty_five_point_game"
           /\ e.team = "Los Angeles Lakers" /\ e.opponent = "Boston Celtics"

\* the three rungs of the 30-10 / 25-10 / 20-10 ladder
ComboRungs == { "thirty_ten_games", "twenty_five_ten_games", "twenty_ten_games" }

(* C29: for every player-game classified, an entry in near_triple_doubles  *)
(* comes with one in double_doubles, an entry in                           *)
(* points_assists_double_double comes with one in double_doubles, an entry *)
(* in five_by_fives comes with one in all_around_games, and an entry in    *)
(* twenty_ten_five_games or in twenty_twenty_games comes with exactly one  *)
(* entry among thirty_ten_games, twenty_five_ten_games, twenty_ten_games.  *)
C29_CoOccurrence ==
    \A pg \in Processed :
        /\ N("near_triple_doubles", pg) >= 1 => N("double_doubles", pg) >= 1
        /\ N("points_assists_double_double", pg) >= 1
               => N("double_doubles", pg) >= 1
        /\ N("five_by_fives", pg) >= 1 => N("all_around_games", pg) >= 1
        /\ (N("twenty_ten_five_games", pg) >= 1 \/ N("twenty_twenty_games", pg) >= 1)
               => /\ Cardinality(Fired(ComboRungs, pg)) = 1
                  /\ \A c \in ComboRungs : N(c, pg) <= 1

\* 30 points, 20 rebounds, 9 assists: a near triple-double with a
\* double-double, and 20-10-5 and 20-20 with the 30-10 rung alone
C29_Witness ==
    \E pg \in Processed :
        /\ V(PlayerOf(pg), "pts") = 30 /\ V(PlayerOf(pg), "trb") = 20
        /\ V(PlayerOf(pg), "ast") = 9
        /\ N("near_triple_doubles", pg) = 1
        /\ N("double_doubles", pg) = 1
        /\ N("twenty_ten_five_games", pg) = 1
        /\ N("twenty_twenty_games", pg) = 1
        /\ Fired(ComboRungs, pg) = { "thirty_ten_games" }

(* C30: in every reachable state the store has exactly the category list   *)
(* fields that MilestoneResults declares, and the keys of to_dict(), the   *)
(* keys of get_milestone_summary() and the keys of MILESTONE_DESCRIPTIONS  *)
(* are that same set; every list that process_games has appended to is    *)
(* under its key in both, with all its entries.                            *)
C30_ClosedKeySet ==
    LET dict    == to_dict(results)
        summary == get_milestone_summary(results)
    IN  /\ DOMAIN results = Categories
        /\ DOMAIN dict = Categories
        /\ DOMAIN summary = Categories
        /\ DOMAIN MILESTONE_DESCRIPTIONS = Categories
        /\ \A c \in Categories :
               /\ Len(dict[c]) = Len(results[c])
               /\ summary[c] = Len(results[c])

\* a classified triple-double: some lists hold an entry, most are empty,
\* and all 56 keys are in both dictionaries
C30_Witness ==
    /\ gi > 1
    /\ Len(results["triple_doubles"]) = 1
    /\ Cardinality({ c \in Categories : results[c] = << >> }) >= 50
    /\ Cardinality(DOMAIN to_dict(results)) = 56
    /\ get_milestone_summary(results)["triple_doubles"] = 1
    /\ get_milestone_summary(results)["quadruple_doubles"] = 0
    /\ to_dict(results)["quadruple_doubles"] = << >>

====
